----------------------------- MODULE FileStore -----------------------------
(***************************************************************************)
(* What cat and the editor promise of files: saving n bytes replaces the   *)
(* first n and keeps the rest, reading gives what was last saved, and      *)
(* nothing else changes a file.                                            *)
(***************************************************************************)
EXTENDS Integers, Sequences

CONSTANTS File, Text

VARIABLES
    files,      \* file -> its bytes
    out         \* what cat or the editor last showed

Init == DOMAIN files = File /\ out = <<>>

Cat(f) == out' = files[f] /\ UNCHANGED files

Save(f, s) ==
    /\ files' = [files EXCEPT ![f] = s \o SubSeq(@, Len(s) + 1, Len(@))]
    /\ out' = s

Next ==
    \E f \in File : Cat(f) \/ \E s \in Text : Save(f, s)

Spec == Init /\ [][Next]_<<files, out>>
=============================================================================
