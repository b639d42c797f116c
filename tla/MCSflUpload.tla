----------------------------- MODULE MCSflUpload -----------------------------
(***************************************************************************)
(* Small instances of SflUpload for TLC.                                   *)
(***************************************************************************)
EXTENDS SflUpload

\* Three images: the second is empty, the third overwrites the last chunk of
\* the first and ends beyond it.
OverlapImages == << [base |-> 0, len |-> 4],
                    [base |-> 7, len |-> 0],
                    [base |-> 3, len |-> 2] >>
==============================================================================
