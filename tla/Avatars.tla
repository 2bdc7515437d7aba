------------------------------ MODULE Avatars ------------------------------
(***************************************************************************)
(* Avatars of identities: web/protected/identities.py, put_avatar and      *)
(* delete_avatar, service/avatar.py and service/assets.py.  An avatar is   *)
(* the file avatars/<identity id>.<extension of the upload>; it is found   *)
(* by a glob over the extensions, and an upload removes the one it finds   *)
(* before it awaits the new one.                                           *)
(***************************************************************************)
EXTENDS Naturals, FiniteSets

CONSTANTS
    Owners,      \* identities
    Names,       \* what requests give as the id: identities, or not
    Glob,        \* Glob[n]: identities whose id starts with the name n
    Extensions,  \* of uploads that are images
    Uploads,     \* requests for avatars
    NoName

ASSUME GlobAssumption ==
    /\ Owners \subseteq Names /\ Glob \in [Names -> SUBSET Owners]
    /\ \A i \in Owners : Glob[i] = {i}

VARIABLES
    files,   \* extensions of the avatar files of each identity
    upload,  \* the handlers
    crossed, \* history: identities with two uploads at once
    newest   \* history: extension of the last upload that ended

avatarVars == <<files, upload, crossed, newest>>

Waiting == [pc |-> "idle", name |-> NoName, ext |-> NoName]

AvatarsInit ==
    /\ files = [i \in Owners |-> {}]
    /\ upload = [r \in Uploads |-> Waiting]
    /\ crossed = {}
    /\ newest = [i \in Owners |-> NoName]

Done(r) == upload' = [upload EXCEPT ![r] = Waiting]

(* The files the glob <name>* finds.                                       *)
Found(n) == {f \in Owners \X Extensions : f[1] \in Glob[n] /\ f[2] \in files[f[1]]}

(* find_avatar_file and unlink: only a single file is found.               *)
UnlinkFound(n) ==
    files' = IF Cardinality(Found(n)) = 1
             THEN [i \in Owners |-> {e \in files[i] : <<i, e>> \notin Found(n)}] ELSE files

Putting(i) == {r \in Uploads : upload[r].name = i /\ upload[r].pc \in {"lookup", "read"}}

(* Fault: the old avatar stays.                                            *)
PutBeside(r, n, e) ==
    /\ upload[r] = Waiting
    /\ upload' = [upload EXCEPT ![r] = [pc |-> "lookup", name |-> n, ext |-> e]]
    /\ crossed' = crossed \cup {i \in {n} \cap Owners : Putting(i) # {}}
    /\ UNCHANGED <<files, newest>>

(* put_avatar up to its first await; a file that is no image is refused.   *)
(* put_default_avatar reads the default's id first.                        *)
PutAvatar(r, n, e) ==
    /\ upload[r] = Waiting
    /\ UnlinkFound(n)
    /\ upload' = [upload EXCEPT ![r] = [pc |-> "lookup", name |-> n, ext |-> e]]
    /\ crossed' = crossed \cup {i \in {n} \cap Owners : Putting(i) # {}}
    /\ UNCHANGED newest

(* get_identity_by_id: an unknown id is a 404, the unlink stays.           *)
LookUp(r) ==
    /\ upload[r].pc = "lookup"
    /\ IF upload[r].name \in Owners THEN upload' = [upload EXCEPT ![r].pc = "read"] ELSE Done(r)
    /\ UNCHANGED <<files, crossed, newest>>

(* file.read() and put_asset(overwrite=True).                              *)
PutAsset(r) ==
    /\ upload[r].pc = "read"
    /\ files' = [files EXCEPT ![upload[r].name] = @ \cup {upload[r].ext}]
    /\ newest' = [newest EXCEPT ![upload[r].name] = upload[r].ext]
    /\ Done(r)
    /\ UNCHANGED crossed

(* The upload ends before the file is read: the old avatar is gone.        *)
UploadFails(r) ==
    /\ upload[r].pc = "read"
    /\ Done(r)
    /\ UNCHANGED <<files, crossed, newest>>

DeleteAvatar(r, n) ==
    /\ upload[r] = Waiting
    /\ upload' = [upload EXCEPT ![r] = [Waiting EXCEPT !.pc = "delete", !.name = n]]
    /\ UNCHANGED <<files, crossed, newest>>

(* delete_avatar after its await.                                          *)
DeleteFound(r) ==
    /\ upload[r].pc = "delete"
    /\ IF upload[r].name \in Owners THEN UnlinkFound(upload[r].name) ELSE UNCHANGED files
    /\ Done(r)
    /\ UNCHANGED <<crossed, newest>>

AvatarsNext ==
    \E r \in Uploads :
        \/ \E n \in Names : DeleteAvatar(r, n) \/ \E e \in Extensions : PutAvatar(r, n, e)
        \/ LookUp(r) \/ PutAsset(r) \/ UploadFails(r) \/ DeleteFound(r)

AvatarsSpec == AvatarsInit /\ [][AvatarsNext]_avatarVars

-----------------------------------------------------------------------------
(* Uploads that do not overlap leave one file at most, and it is the one   *)
(* of the latest upload: get_avatar_by_identity serves what was put last.  *)
LatestShown ==
    \A i \in Owners \ crossed : files[i] # {} => files[i] = {newest[i]}
=============================================================================
