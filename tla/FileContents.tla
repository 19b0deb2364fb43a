---------------------------- MODULE FileContents ----------------------------
(***************************************************************************)
(* What storage promises the rest of videocms, whatever mounts a file's    *)
(* objects are kept on: a file is a set of objects, an object changes only *)
(* when the application replaces it, nothing of a file vanishes but the    *)
(* uploaded source once every output exists, and a deleted file stays      *)
(* deleted.  Copies, cutovers, cleanups, aborted migrations and crashes    *)
(* are no steps of this specification at all.                              *)
(***************************************************************************)
EXTENDS Naturals

CONSTANTS Files, Objs, SourceObj, MaxVersion

\* contents[f][o] is the version readers of f see of its object o, 0 if there
\* is none; deleted is the set of files whose row is gone or marked deleted.
VARIABLES contents, deleted

contentsVars == <<contents, deleted>>

Replace(f, o) ==
    /\ f \notin deleted
    /\ contents[f][o] < MaxVersion
    /\ contents' = [contents EXCEPT ![f][o] = contents[f][o] + 1]
    /\ UNCHANGED deleted

(* The uploaded source goes only when every output is there to replace it. *)
DropSource(f) ==
    /\ f \notin deleted
    /\ \A o \in Objs : contents[f][o] > 0
    /\ contents' = [contents EXCEPT ![f][SourceObj] = 0]
    /\ UNCHANGED deleted

\* The file is gone for its readers at once; its objects go when the deleter
\* gets to them.
DeleteFile(f) ==
    /\ f \notin deleted
    /\ deleted' = deleted \cup {f}
    /\ contents' = [contents EXCEPT ![f] = [o \in Objs |-> 0]]

ContentsInit ==
    /\ contents = [f \in Files |-> [o \in Objs |-> IF o = SourceObj THEN 1 ELSE 0]]
    /\ deleted = {}

ContentsNext ==
    \E f \in Files :
        \/ \E o \in Objs : Replace(f, o)
        \/ DropSource(f)
        \/ DeleteFile(f)

ContentsSpec == ContentsInit /\ [][ContentsNext]_contentsVars
=============================================================================
