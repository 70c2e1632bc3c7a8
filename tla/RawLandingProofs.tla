--------------------------- MODULE RawLandingProofs ---------------------------
(***************************************************************************)
(* The bucket is a write-once register for whoever lands in it: lemmas for *)
(* the modules that use RawLanding.                                        *)
(***************************************************************************)
EXTENDS RawLanding, TLAPS

Told == [p \in Uploaders |-> Confirmed(p)]

LEMMA ReleaseForgets ==
    ASSUME RawTypeOK, NEW p \in Uploaders, Release(p)
    PROVE  Register!Forget(p)
<1>1. /\ upload' = [upload EXCEPT ![p] = "idle"] /\ item' = [item EXCEPT ![p] = NoItem]
      /\ UNCHANGED object
  BY DEF Release
<1>2. \A q \in Uploaders : Confirmed(q)' = IF q = p THEN NoItem ELSE Confirmed(q)
  BY <1>1 DEF Confirmed, RawTypeOK
<1>3. Told' = [Told EXCEPT ![p] = NoItem]
  BY <1>2 DEF Told
<1> QED  BY <1>1, <1>3 DEF Register!Forget, Told

\* A step of an upload that does not confirm.
LEMMA UploadStutters ==
    ASSUME RawTypeOK, NEW p \in Uploaders, UNCHANGED <<object, item>>,
           NEW state, state # "landed", upload[p] # "landed",
           upload' = [upload EXCEPT ![p] = state]
    PROVE  UNCHANGED <<object, Told>>
<1>1. \A q \in Uploaders : Confirmed(q)' = Confirmed(q)
  BY DEF Confirmed, RawTypeOK
<1> QED  BY <1>1 DEF Told

\* A step of an upload that may confirm.
LEMMA UploadConfirms ==
    ASSUME RawTypeOK, NEW p \in Uploaders, UNCHANGED item,
           \/ upload' = [upload EXCEPT ![p] = "landed"]
           \/ UNCHANGED upload
    PROVE  Told' \in {Told, [Told EXCEPT ![p] = <<item[p][1], item[p][2]>>]}
<1>1. CASE UNCHANGED upload
  BY <1>1 DEF Told, Confirmed
<1>2. CASE upload' = [upload EXCEPT ![p] = "landed"] /\ item[p] \in Uris \X Sums
  <2>1. item[p] = <<item[p][1], item[p][2]>>
    BY <1>2
  <2>2. \A q \in Uploaders : Confirmed(q)' = IF q = p THEN item[p] ELSE Confirmed(q)
    BY <1>2 DEF Confirmed, RawTypeOK
  <2>3. Told' = [Told EXCEPT ![p] = item[p]]
    BY <2>2 DEF Told
  <2> QED  BY <2>1, <2>3
<1>3. CASE upload' = [upload EXCEPT ![p] = "landed"] /\ item[p] = NoItem
  <2>1. \A q \in Uploaders : Confirmed(q)' = Confirmed(q)
    BY <1>3 DEF Confirmed, RawTypeOK
  <2> QED  BY <2>1 DEF Told
<1> QED  BY <1>1, <1>2, <1>3 DEF RawTypeOK

LEMMA UploadStores ==
    ASSUME RawTypeOK, NEW p \in Uploaders, UploadStep(p)
    PROVE  Register!Next \/ UNCHANGED <<object, Told>>
<1>1. upload[p] # "idle" => item[p][1] \in Uris /\ item[p][2] \in Sums
  BY DEF RawTypeOK
<1>2. CASE Create(p)
  <2>1. Told' \in {Told, [Told EXCEPT ![p] = <<item[p][1], item[p][2]>>]}
    BY <1>2, UploadConfirms DEF Create
  <2>2. Register!Store(p, item[p][1], item[p][2])
    BY <1>2, <2>1 DEF Create, Absent, Register!Store, Told
  <2> QED  BY <1>1, <1>2, <2>2 DEF Create, Register!Next
<1>3. CASE Refuse(p)
  BY <1>3, UploadStutters DEF Refuse
<1>4. CASE Compare(p) /\ SameContent(p)
  <2>1. Told' \in {Told, [Told EXCEPT ![p] = <<item[p][1], item[p][2]>>]}
    BY <1>4, UploadConfirms DEF Compare
  <2>2. object' = [object EXCEPT ![item[p][1]] = item[p][2]]
    BY <1>4 DEF Compare, SameContent, RawTypeOK
  <2>3. Register!Store(p, item[p][1], item[p][2])
    BY <1>4, <2>1, <2>2 DEF SameContent, Register!Store, Told
  <2> QED  BY <1>1, <1>4, <2>3 DEF Compare, Register!Next
<1>5. CASE Compare(p) /\ ~SameContent(p)
  BY <1>5, UploadStutters DEF Compare
<1>6. CASE UploadFails(p)
  BY <1>6, UploadStutters DEF UploadFails
<1> QED  BY <1>2, <1>3, <1>4, <1>5, <1>6 DEF UploadStep

LEMMA BeginStutters ==
    ASSUME RawTypeOK, NEW p \in Uploaders, NEW u, NEW s, BeginUpload(p, u, s)
    PROVE  UNCHANGED <<object, Told>>
<1>1. UNCHANGED object /\ \A q \in Uploaders : Confirmed(q)' = Confirmed(q)
  BY DEF BeginUpload, Confirmed, RawTypeOK
<1> QED  BY <1>1 DEF Told

-----------------------------------------------------------------------------
\* At first nothing is stored but what was put there by hand, and nobody was
\* told anything.
LEMMA RegisterInit == RawInit => Register!Init
<1> SUFFICES ASSUME RawInit PROVE Register!Init
  OBVIOUS
<1>1. object \in [Uris -> {NoObject, NoSum}]
  BY DEF RawInit
<1>2. Told = [p \in Uploaders |-> NoItem]
  BY DEF RawInit, Told, Confirmed
<1> QED  BY <1>1, <1>2 DEF Register!Init, Told

\* What an uploader does to the bucket writes an object once, tells the uploader
\* what is stored, or is not seen.
LEMMA RegisterStep ==
    ASSUME RawTypeOK, NEW p \in Uploaders,
           \/ UNCHANGED rawVars \/ Release(p) \/ UploadStep(p)
           \/ \E u, s : BeginUpload(p, u, s)
    PROVE  [Register!Next]_<<object, Told>>
<1>1. CASE UNCHANGED rawVars
  BY <1>1 DEF rawVars, Told, Confirmed
<1>2. CASE Release(p)
  BY <1>2, ReleaseForgets DEF Register!Next
<1>3. CASE UploadStep(p)
  BY <1>3, UploadStores
<1>4. CASE \E u, s : BeginUpload(p, u, s)
  BY <1>4, BeginStutters
<1> QED  BY <1>1, <1>2, <1>3, <1>4
=============================================================================
