------------------------------- MODULE Calls --------------------------------
(***************************************************************************)
(* The system calls that the tests of the benchmark make, as the steps of  *)
(* straight-line programs.  A test is a sequence of calls: a loop of n     *)
(* rounds is its body n times.  A call names the descriptor, buffer or     *)
(* other thing that it is about, the file it uses, and the calls made to   *)
(* clean up when it fails and the test returns -1.                         *)
(***************************************************************************)
EXTENDS Integers, SequencesExt

CONSTANT Blocks   \* disk_iteration_count, blocks of a test file
ASSUME BlocksAssumption == Blocks \in Nat

Call(op, on, file, undo) == [op |-> op, on |-> on, file |-> file, undo |-> undo]

Rounds(n, body) == [i \in 1 .. n * Len(body) |-> body[((i - 1) % Len(body)) + 1]]

\* Calls that do not fail, or whose failure nobody looks at.
Close(fd)    == Call("close", fd, "", <<>>)
Unlink(f)    == Call("unlink", "", f, <<>>)
Free(m)      == Call("free", m, "", <<>>)
Clear        == Call("clear", "", "", <<>>)
\* The process dies of it: abort(), or an access that its memory does not have.
Abort        == Call("abort", "", "", <<>>)
Segv         == Call("segv", "", "", <<>>)

\* Files.  The file is the one that the descriptor was opened on.
Creat(fd, f, undo) == Call("creat", fd, f, undo)
Open(fd, f, undo)  == Call("open", fd, f, undo)
Write(fd, undo)    == Call("write", fd, "", undo)
Read(fd, undo)     == Call("read", fd, "", undo)
\* lseek() to a random block out of n, and to the start of the file.
Seek(fd, n, undo)  == [op |-> "seek", on |-> fd, file |-> "", undo |-> undo, range |-> n]
Rewind(fd, undo)   == Call("rewind", fd, "", undo)
\* A directory entry: mkfifo() or link(), and an unlink() that is looked at.
Make(f, undo)      == Call("make", "", f, undo)
UnlinkOrFail(f, undo) == Call("remove", "", f, undo)

\* Descriptors without a file, memory and the working directory, and calls
\* that change nothing of interest here.
Socket(fds)        == Call("socket", fds, "", <<>>)   \* a set: a pair comes in one call
Fopen(fd, undo)    == Call("socket", {fd}, "", undo)  \* nobody else knows the file
Accept(fd)         == Call("accept", fd, "", <<>>)
Send(fd)           == Call("send", fd, "", <<>>)
Receive(fd)        == Call("receive", fd, "", <<>>)
Alloc(m, undo)     == Call("alloc", m, "", undo)
Try(undo)          == Call("try", "", "", undo)

\* Processes and System V IPC.
Fork               == Call("fork", "", "", <<>>)
WaitAll            == Call("wait", "", "", <<>>)
ShmGet             == Call("shmget", "", "", <<>>)
SemGet             == Call("semget", "", "", <<>>)
ShmAt              == Call("shmat", "", "", <<Clear>>)
SemCtl             == Call("semctl", "", "", <<Clear>>)
SemOp(by)          == Call("semop", by, "", <<Clear>>)
Memcpy             == Call("copy", "", "", <<Clear, Segv>>)   \* memcpy() to or from the segment
=============================================================================
