------------------------------ MODULE RawLanding ------------------------------
(***************************************************************************)
(* Immutable objects of the raw bucket (src/ingestion/raw_landing.py):     *)
(* land_bytes and land_file create an object under the precondition that   *)
(* it does not exist, and take an existing one for their own only if its   *)
(* metadata names the same SHA-256. Uploaders run concurrently; an answer  *)
(* may be lost, and the storage client then sends the request again.       *)
(*                                                                         *)
(* The module has no specification of its own: SourceIntake and PagedIngest*)
(* use it for what they land.                                              *)
(***************************************************************************)
CONSTANTS Uploaders, Uris,
          Sums,       \* the SHA-256 values of contents
          NoSum,      \* the mark of an object put there by other tools
          Foreign,    \* where such objects may be
          NoObject, NoItem

\* What a checksum never is, and what an upload never is.
ASSUME SumAssumption ==
    /\ NoObject \notin Sums
    /\ NoSum \notin Sums
    /\ NoSum # NoObject
    /\ NoItem \notin Uris \X Sums

VARIABLES object,   \* object[u]: the source_sha256 in the metadata of object u
          upload,   \* upload[p]: how far the upload of p is
          item      \* item[p]: the <<uri, checksum>> p uploads

rawVars == <<object, upload, item>>

UploadState == {"idle", "sending", "refused", "landed", "conflict", "failed"}

RawTypeOK ==
    /\ object \in [Uris -> Sums \cup {NoSum, NoObject}]
    /\ upload \in [Uploaders -> UploadState]
    /\ item \in [Uploaders -> (Uris \X Sums) \cup {NoItem}]
    /\ \A p \in Uploaders : upload[p] # "idle" => item[p] # NoItem

\* Objects copied into the bucket by hand carry no source_sha256.
RawInit ==
    /\ \E byHand \in SUBSET Foreign :
           object = [u \in Uris |-> IF u \in byHand THEN NoSum ELSE NoObject]
    /\ upload = [p \in Uploaders |-> "idle"]
    /\ item = [p \in Uploaders |-> NoItem]

BeginUpload(p, u, s) ==
    /\ upload[p] = "idle"
    /\ upload' = [upload EXCEPT ![p] = "sending"]
    /\ item' = [item EXCEPT ![p] = <<u, s>>]
    /\ UNCHANGED object

\* Mutant: the request lost its precondition.
Bug_Absent(p) == TRUE

\* if_generation_match=0.
Absent(p) == object[item[p][1]] = NoObject

\* The answer arrives, or it is lost and the client repeats the request.
Create(p) ==
    /\ upload[p] = "sending"
    /\ Absent(p)
    /\ object' = [object EXCEPT ![item[p][1]] = item[p][2]]
    /\ \/ upload' = [upload EXCEPT ![p] = "landed"]
       \/ UNCHANGED upload
    /\ UNCHANGED item

\* PreconditionFailed.
Refuse(p) ==
    /\ upload[p] = "sending"
    /\ ~Absent(p)
    /\ upload' = [upload EXCEPT ![p] = "refused"]
    /\ UNCHANGED <<object, item>>

\* Mutants: an object without metadata passes, and any object.
Bug_MissingSumPasses(p) == object[item[p][1]] \in {item[p][2], NoSum}
Bug_SameContent(p) == TRUE

SameContent(p) == object[item[p][1]] = item[p][2]

\* blob.reload() and the comparison; LandingConflict if it differs.
Compare(p) ==
    /\ upload[p] = "refused"
    /\ upload' = [upload EXCEPT ![p] = IF SameContent(p) THEN "landed" ELSE "conflict"]
    /\ UNCHANGED <<object, item>>

\* Any other error, at the request or at the reload.
UploadFails(p) ==
    /\ upload[p] \in {"sending", "refused"}
    /\ upload' = [upload EXCEPT ![p] = "failed"]
    /\ UNCHANGED <<object, item>>

UploadStep(p) == Create(p) \/ Refuse(p) \/ Compare(p) \/ UploadFails(p)

\* The caller has the result, or the exception; or it died.
Release(p) ==
    /\ upload' = [upload EXCEPT ![p] = "idle"]
    /\ item' = [item EXCEPT ![p] = NoItem]
    /\ UNCHANGED object

-----------------------------------------------------------------------------
\* What p has been told is stored.
Confirmed(p) == IF upload[p] = "landed" THEN item[p] ELSE NoItem

Register == INSTANCE WriteOnce WITH value <- object,
                                    confirmed <- [p \in Uploaders |-> Confirmed(p)]

RegisterSpec == Register!Spec
=============================================================================
