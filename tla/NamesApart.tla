----------------------------- MODULE NamesApart -----------------------------
(***************************************************************************)
(* Users whose process numbers differ in the last five digits, which is    *)
(* all that aim_mktemp() (disk1.c) and get_list() (disk_src.c) put of them *)
(* into the names of files.  A system with larger process numbers can have *)
(* others; TestRunner allows them.                                         *)
(***************************************************************************)
EXTENDS TestRunner

ASSUME PidsApart == \A u, v \in User : u # v => pid[u] % 100000 # pid[v] % 100000
=============================================================================
