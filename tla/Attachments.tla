---------------------------- MODULE Attachments -----------------------------
(***************************************************************************)
(* Uploads to the object storage and the attachments that confirm them     *)
(* (media/services.py, media/infra).                                       *)
(*                                                                         *)
(* A client gets a URL signed for a new key, uploads with it as often as   *)
(* it likes while it is valid, and confirms the upload: the service asks   *)
(* the storage for the object's size and stores a row with it.             *)
(*                                                                         *)
(* Abstractions.  A key is named by the request that made its URL, the     *)
(* size of an object by the upload that wrote it; names, types and owners  *)
(* of files are left out.                                                  *)
(***************************************************************************)
EXTENDS Desk

CONSTANT Uploads   \* identifiers of uploads

ASSUME AttachmentsAssumption == None \notin Uploads

VARIABLES
    urls,         \* the keys whose URL is valid
    objects,      \* the storage: the upload that wrote each key last
    attachments,  \* the rows of table attachments: key and size
    rewritten     \* the keys written again after a confirmation had looked

attachmentVars == <<urls, objects, attachments, rewritten>>

Keys == Requests

AttachmentsInit ==
    /\ urls = {} /\ attachments = {} /\ rewritten = {}
    /\ objects = [k \in Keys |-> None]

\* create_presigned_upload_url: the key has a new UUID in it.
CreateUploadUrl(r) ==
    /\ Start(r, "done", None)
    /\ urls' = urls \cup {r}
    /\ UNCHANGED <<objects, attachments, rewritten>>

\* The client puts an object, or puts it again.
Upload(k, u) ==
    /\ k \in urls
    /\ objects' = [objects EXCEPT ![k] = u]
    /\ rewritten' = rewritten \cup
          {x \in {k} : \/ \E a \in attachments : a.storage_key = k
                       \/ \E r \in Requests : pc[r] = "sized" /\ held[r].storage_key = k}
    /\ UNCHANGED <<urls, attachments>>
    /\ UNCHANGED deskVars

\* The URL is valid for 1800 seconds.
UrlExpires(k) ==
    /\ k \in urls
    /\ urls' = urls \ {k}
    /\ UNCHANGED <<objects, attachments, rewritten>>
    /\ UNCHANGED deskVars

\* Mutant: the size is the one the client tells.
ConfirmUnseen(r, k, u) ==
    /\ Start(r, "sized", [storage_key |-> k, size |-> u])
    /\ UNCHANGED attachmentVars

\* confirm_upload: get_file_info fails when there is no object.
ConfirmUpload(r, k, u) ==
    /\ objects[k] = u
    /\ Start(r, "sized", [storage_key |-> k, size |-> u])
    /\ UNCHANGED attachmentVars

Recorded(k) == \E a \in attachments : a.storage_key = k

\* attachments.storage_key is unique.
StoreAttachment(r) ==
    /\ pc[r] = "sized"
    /\ ~Recorded(held[r].storage_key)
    /\ End(r, "sized", "done")
    /\ attachments' = attachments \cup {held[r]}
    /\ UNCHANGED <<urls, objects, rewritten>>

RefuseAttachment(r) ==
    /\ pc[r] = "sized"
    /\ Recorded(held[r].storage_key)
    /\ End(r, "sized", "failed")
    /\ UNCHANGED attachmentVars

AttachmentsNext ==
    \/ \E k \in Keys, u \in Uploads : Upload(k, u)
    \/ \E k \in Keys : UrlExpires(k)
    \/ \E r \in Requests :
        \/ CreateUploadUrl(r)
        \/ \E k \in Keys, u \in Uploads : ConfirmUpload(r, k, u)
        \/ StoreAttachment(r)
        \/ RefuseAttachment(r)
        \/ Abandon(r) /\ UNCHANGED attachmentVars

AttachmentsSpec == DeskInit /\ AttachmentsInit /\ [][AttachmentsNext]_<<deskVars, attachmentVars>>

-----------------------------------------------------------------------------
\* An attachment has an object behind it, and is as large as it says unless its
\* key was written again since the size was asked for.  (confirm_upload, with a URL
\* that stays valid.)
AttachmentsAreStored ==
    \A a \in attachments :
        /\ objects[a.storage_key] # None
        /\ a.storage_key \notin rewritten => a.size = objects[a.storage_key]
=============================================================================
