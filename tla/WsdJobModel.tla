---------------------------- MODULE WsdJobModel ----------------------------
(***************************************************************************)
(* WsdJobModel of src/src/wsd_scan_model.cpp, the life of one scan job, fed *)
(* with what the decoders of src/src/wsd_job_codec.cpp make of a device's  *)
(* answers. A method called in the wrong state, or with credentials that   *)
(* are not the job's, throws and changes nothing, so that the guard of its *)
(* action is false; accept_image() fails the job before it throws. Sizes   *)
(* are machine words.                                                      *)
(***************************************************************************)
EXTENDS MachineWords, Sequences

CONSTANTS
  Credential,      \* the job credentials that a response or a caller may hold
  Valid,           \* those that validate_credentials() accepts
  MaxImageBytes,   \* WsdSafetyLimits::max_image_bytes
  MaxImages        \* WsdSafetyLimits::max_images

NoCredentials == "none"

ASSUME JobAssumption ==
  /\ Word \in Nat /\ MaxImages \in Nat \ {0}
  /\ MaxImageBytes \in 1 .. Word - 1
  /\ Valid \subseteq Credential /\ NoCredentials \notin Credential

VARIABLES
  job,           \* state_
  credentials,   \* credentials_
  images,        \* images_received_
  imageBytes,    \* image_bytes_received_
  retriever      \* history: the credentials that the last retrieval was begun with

jobVars == <<job, credentials, images, imageBytes, retriever>>

JobInit ==
  /\ job = "idle" /\ credentials = NoCredentials
  /\ images = 0 /\ imageBytes = 0
  /\ retriever = NoCredentials

AcceptTicketValidation(valid) ==
  /\ job = "idle"
  /\ job' = IF valid THEN "ticket_validated" ELSE "failed"
  /\ UNCHANGED <<credentials, images, imageBytes, retriever>>

\* decode_wsd_create_scan_job_response() of a response whose elements have these
\* texts, one for each time the element occurs: what it says in answer to the
\* request `relates`, or nothing.
CreatedJob(response, relates) ==
  IF /\ response.relatesTo = <<relates>>
     /\ Len(response.credentials) = 1 /\ response.credentials[1] \in Valid
     /\ Len(response.formats) <= 1
  THEN response.credentials
  ELSE <<>>

\* The credentials come out of a decoded response.
AcceptJobCreated(created) ==
  /\ job = "ticket_validated"
  /\ created \in Valid
  /\ credentials' = created
  /\ job' = "job_created"
  /\ UNCHANGED <<images, imageBytes, retriever>>

\* A mutant: any valid credentials will do.
AnyCredentials(of) == of \in Valid

\* validate_credentials() and same_credentials() of a caller's credentials.
OwnCredentials(of) == of \in Valid /\ of = credentials

BeginRetrieve(of) ==
  /\ job = "job_created"
  /\ OwnCredentials(of)
  /\ job' = "retrieving"
  /\ retriever' = of
  /\ UNCHANGED <<credentials, images, imageBytes>>

AcceptImage(bytes, more) ==
  /\ job = "retrieving"
  /\ IF \/ bytes = 0 \/ bytes > MaxImageBytes
        \/ imageBytes > Minus(MaxImageBytes, bytes)
        \/ images = MaxImages
     THEN job' = "failed" /\ UNCHANGED <<images, imageBytes>>
     ELSE /\ images' = images + 1
          /\ imageBytes' = (imageBytes + bytes) % Word
          /\ job' = IF more THEN "job_created" ELSE "complete"
  /\ UNCHANGED <<credentials, retriever>>

CancelJob ==
  /\ job \in {"job_created", "retrieving"}
  /\ job' = "cancelled"
  /\ UNCHANGED <<credentials, images, imageBytes, retriever>>

\* fail() asks for no state.
FailJob == job' = "failed" /\ UNCHANGED <<credentials, images, imageBytes, retriever>>

-----------------------------------------------------------------------------
\* The answers to a request to create a job.
Responses ==
  [relatesTo : {<<>>, <<"mine">>, <<"another">>, <<"mine", "mine">>},
   credentials : {<<>>} \cup {<<c>> : c \in Credential} \cup {<<c, d>> : c, d \in Credential},
   formats : {<<>>, <<"exif">>, <<"exif", "png">>}]

JobNext ==
  \/ \E valid \in BOOLEAN : AcceptTicketValidation(valid)
  \/ \E response \in Responses : \E i \in DOMAIN CreatedJob(response, "mine") :
       AcceptJobCreated(CreatedJob(response, "mine")[i])
  \/ \E of \in Credential : BeginRetrieve(of)
  \/ \E bytes \in Bytes, more \in BOOLEAN : AcceptImage(bytes, more)
  \/ CancelJob
  \/ FailJob

JobSpec == JobInit /\ [][JobNext]_jobVars

-----------------------------------------------------------------------------
JobStates ==
  {"idle", "ticket_validated", "job_created", "retrieving", "complete", "cancelled", "failed"}

JobEnds == {"complete", "cancelled", "failed"}

\* Every variable has the type of the member it stands for, a job that was
\* created keeps credentials that are valid, and a retrieval has the job's.
JobTypeOK ==
  /\ job \in JobStates
  /\ credentials \in Valid \cup {NoCredentials} /\ retriever \in Credential \cup {NoCredentials}
  /\ images \in 0 .. MaxImages /\ imageBytes \in 0 .. MaxImageBytes
  /\ job \in {"job_created", "retrieving", "complete", "cancelled"} => credentials \in Valid
  /\ job \in {"idle", "ticket_validated"} => credentials = NoCredentials
  /\ job = "retrieving" => retriever = credentials

\* In whose name an image is being retrieved, and how the job has ended.
Retriever == IF job = "retrieving" THEN retriever ELSE NoCredentials
JobEnd == IF job \in JobEnds THEN job ELSE "none"

Job ==
  INSTANCE ImageTransfer WITH
    Owner <- Valid, Nobody <- NoCredentials, MaxBytes <- MaxImageBytes,
    owner <- credentials, asker <- Retriever, end <- JobEnd, bytes <- imageBytes

\* A job transfers images as promised. It has one set of credentials for good, and
\* an image counts only in a retrieval that was begun with them, within both limits
\* together whatever the sizes. Once complete, cancelled or failed it never runs,
\* counts or ends otherwise again, except that fail(), which asks for no state,
\* turns a complete or cancelled job into a failed one.
ImplementsTransfer == Job!Spec
=============================================================================
