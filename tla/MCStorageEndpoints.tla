------------------------- MODULE MCStorageEndpoints --------------------------
(* Small instances of StorageEndpoints for TLC. *)
EXTENDS StorageEndpoints, TLC

CONSTANTS b1, b2, s3key, typo, nocont, create, mixed, wrong, delete1, delete2,
          o1, o2, f1, fetch1, fetch2, store, remove

TheBlobs   == {b1, b2, s3key, typo, nocont}
TheForeign == {s3key}
TheUnknown == {typo}
TheNoContainer == {nocont}
TheOld     == {b1}
TheCreates == {create, mixed, wrong}
TheDeletes == {delete1, delete2}
\* Among them: a request that names an unsupported account after two others, one
\* with a misspelt account, and one that repeats a file.
TheTargets == (create :> <<b1, b2>>) @@ (mixed :> <<b2, nocont, s3key>>)
              @@ (wrong :> <<typo, b1>>) @@ (delete1 :> <<b1>>) @@ (delete2 :> <<b1, b1>>)
TheObjects == {o1, o2}
TheFiles   == {f1}
TheFetches == {fetch1, fetch2}
TheStores  == {store}
TheRemovals == {remove}
TheObjectOf == (fetch1 :> o1) @@ (fetch2 :> o2) @@ (store :> o2) @@ (remove :> o1)
TheFileOf   == [c \in TheFetches \cup TheStores |-> f1]
AllFaults   == Faults
=============================================================================
