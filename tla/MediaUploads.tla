---------------------------- MODULE MediaUploads -----------------------------
(* How media enter the library of MediaLibrary: through the server, which   *)
(* saves the file and then inserts the row, or with an upload session: a    *)
(* pending row, a file the client puts in the storage itself, and a request *)
(* that completes the two.  Files are recognised by their hash; a workspace *)
(* keeps one copy, within its quota of stored bytes (handlers/media.go).    *)
EXTENDS MediaLibrary

CONSTANTS
  Hashes,        \* contents of files, by their hash
  OtherHashes,   \* files that another workspace has
  MediaRequests, \* requests that upload or complete
  StoredLimit,   \* quota of stored files; every file has size 1
  MonthlyLimit   \* quota of files uploaded in a month

ASSUME UploadAssumption ==
  /\ OtherHashes \subseteq Hashes
  /\ "none" \notin Hashes /\ "none" \notin MediaIds
  /\ IsFiniteSet(MediaRequests) /\ MediaRequests # {}
  /\ StoredLimit \in Nat /\ MonthlyLimit \in Nat

VARIABLES
  upload,   \* what each request knows
  counted   \* the counter of bytes uploaded in the month

uploadVars == <<upload, counted>>

-----------------------------------------------------------------------------
NoUpload == [pc |-> "idle", m |-> "none", hash |-> "none"]

UploadsInit ==
  /\ row = [m \in MediaIds |-> NoMedium]
  /\ object = [m \in MediaIds |-> "none"]
  /\ LibraryIdle
  /\ upload = [u \in MediaRequests |-> NoUpload]
  /\ counted = 0

SetUpload(u, r) == upload' = [upload EXCEPT ![u] = r]
Reply(u) == SetUpload(u, NoUpload)

\* Rows and files are all that uploads touch of the library.
PostsUnchanged ==
  UNCHANGED <<attached, inVariant, published, editor, deleter, cleanup, late>>

FreshIds == {m \in MediaIds : /\ row[m].status = "none" /\ object[m] = "none"
                              /\ \A u \in MediaRequests : upload[u].m # m}

\* findDuplicateMedia: another medium of the workspace with the same file.
Duplicates(h, self) == {m \in Stored \ {self} : row[m].hash = h}

\* Mutant: pending sessions do not count.
WithinQuotaWithoutPending(self) ==
  /\ counted + 1 <= MonthlyLimit
  /\ Cardinality({m \in Stored \ {self} : row[m].status = "ready"}) + 1 <= StoredLimit

\* checkUploadQuotaExcludingMedia
WithinQuota(self) ==
  /\ counted + 1 <= MonthlyLimit
  /\ Cardinality(Stored \ {self}) + 1 <= StoredLimit

\* file_hash is unique among all workspaces; "pending" stands for a hash of its own.
HashIsFree(h, self) == h \notin OtherHashes /\ Duplicates(h, self) = {}

-----------------------------------------------------------------------------
(* Uploads through the server *)

\* A file the workspace has is answered with its medium.
StartUpload(u) ==
  /\ upload[u].pc = "idle"
  /\ \E h \in Hashes :
       /\ Duplicates(h, "none") = {} /\ WithinQuota("none")
       /\ SetUpload(u, [pc |-> "save", m |-> "none", hash |-> h])
  /\ UNCHANGED <<row, object, removing, counted>> /\ PostsUnchanged

SaveFile(u) ==
  /\ upload[u].pc = "save" /\ FreshIds # {}
  /\ LET m == CHOOSE x \in FreshIds : TRUE
     IN  /\ object' = [object EXCEPT ![m] = upload[u].hash]
         /\ SetUpload(u, [upload[u] EXCEPT !.pc = "insert", !.m = m])
  /\ UNCHANGED <<row, removing, counted>> /\ PostsUnchanged

\* When the row is refused, the file stays.
InsertRow(u) ==
  /\ upload[u].pc = "insert"
  /\ IF HashIsFree(upload[u].hash, "none")
     THEN /\ row' = [row EXCEPT ![upload[u].m] = Medium("ready", upload[u].hash)]
          /\ SetUpload(u, [upload[u] EXCEPT !.pc = "count"])
     ELSE Reply(u) /\ UNCHANGED row
  /\ UNCHANGED <<object, removing, counted>> /\ PostsUnchanged

CountUpload(u) ==
  /\ upload[u].pc = "count"
  /\ counted' \in {counted, counted + 1}   \* the counter may be out of reach
  /\ Reply(u)
  /\ UNCHANGED <<row, object, removing>> /\ PostsUnchanged

-----------------------------------------------------------------------------
(* Upload sessions *)

StartSession(u) ==
  /\ upload[u].pc = "idle" /\ WithinQuota("none")
  /\ SetUpload(u, [NoUpload EXCEPT !.pc = "reserve"])
  /\ UNCHANGED <<row, object, removing, counted>> /\ PostsUnchanged

ReserveUpload(u) ==
  /\ upload[u].pc = "reserve" /\ FreshIds # {}
  /\ row' = [row EXCEPT ![CHOOSE x \in FreshIds : TRUE] = Medium("processing", "pending")]
  /\ Reply(u)
  /\ UNCHANGED <<object, removing, counted>> /\ PostsUnchanged

\* The client puts one file in the storage with the address it was given.
ClientPuts(m) ==
  /\ row[m].status \in {"processing", "failed"} /\ object[m] = "none"
  /\ \E h \in Hashes : object' = [object EXCEPT ![m] = h]
  /\ UNCHANGED <<row, removing, upload, counted>> /\ PostsUnchanged

\* A session that is ready or failed is answered at once.
LoadSession(u) ==
  /\ upload[u].pc = "idle"
  /\ \E m \in MediaIds :
       /\ row[m].status = "processing"
       /\ SetUpload(u, [NoUpload EXCEPT !.pc = "read", !.m = m])
  /\ UNCHANGED <<row, object, removing, counted>> /\ PostsUnchanged

\* markMediaUploadFailed looks at the id only.
MarkFailed(m) ==
  row' = IF Exists(m) THEN [row EXCEPT ![m].status = "failed"] ELSE row

\* Mutant: a file that is missing is taken for an empty one.
ReadFileMissingIsFine(u) ==
  /\ upload[u].pc = "read"
  /\ SetUpload(u, [upload[u] EXCEPT !.pc = "search", !.hash = object[upload[u].m]])
  /\ UNCHANGED <<row, object, removing, counted>> /\ PostsUnchanged

ReadFile(u) ==
  LET m == upload[u].m IN
  /\ upload[u].pc = "read"
  /\ \/ /\ object[m] # "none" /\ WithinQuota(m)
        /\ SetUpload(u, [upload[u] EXCEPT !.pc = "search", !.hash = object[m]])
        /\ UNCHANGED row
     \/ /\ object[m] # "none" /\ ~WithinQuota(m)
        /\ Reply(u) /\ UNCHANGED row
     \/ /\ MarkFailed(m) /\ Reply(u)   \* missing, or out of reach
  /\ UNCHANGED <<object, removing, counted>> /\ PostsUnchanged

SearchDuplicate(u) ==
  /\ upload[u].pc = "search"
  /\ SetUpload(u, [upload[u] EXCEPT !.pc =
       IF Duplicates(upload[u].hash, upload[u].m) = {} THEN "finalize" ELSE "drop file"])
  /\ UNCHANGED <<row, object, removing, counted>> /\ PostsUnchanged

\* The new file goes, and the medium that has it already is answered.
DropDuplicateFile(u) ==
  /\ upload[u].pc = "drop file"
  /\ \/ object' = [object EXCEPT ![upload[u].m] = "none"]
     \/ UNCHANGED object
  /\ removing' = removing \cup {upload[u].m}
  /\ SetUpload(u, [upload[u] EXCEPT !.pc = "drop row"])
  /\ UNCHANGED <<row, counted>> /\ PostsUnchanged

DropDuplicateRow(u) ==
  /\ upload[u].pc = "drop row"
  /\ row' = [row EXCEPT ![upload[u].m] = GoneMedium]
  /\ Reply(u)
  /\ UNCHANGED <<object, removing, counted>> /\ PostsUnchanged

\* An update of a row that is gone succeeds, and is counted.
Finalize(u) ==
  LET m == upload[u].m IN
  /\ upload[u].pc = "finalize"
  /\ IF HashIsFree(upload[u].hash, m) \/ ~Exists(m)
     THEN /\ row' = IF Exists(m)
                    THEN [row EXCEPT ![m].status = "ready", ![m].hash = upload[u].hash]
                    ELSE row
          /\ SetUpload(u, [upload[u] EXCEPT !.pc = "count"])
     ELSE MarkFailed(m) /\ Reply(u)
  /\ UNCHANGED <<object, removing, counted>> /\ PostsUnchanged

\* The process dies while requests are under way.
UploadServerDies ==
  /\ \E u \in MediaRequests : upload[u].pc # "idle"
  /\ upload' = [u \in MediaRequests |-> NoUpload]
  /\ deleter' = [d \in Deleters |-> NoDeleter]
  /\ cleanup' = NoCleanup /\ editor' = NoEditor
  /\ UNCHANGED <<row, object, attached, inVariant, published, late, removing, counted>>

UploadsNext ==
  \/ \E u \in MediaRequests :
       \/ StartUpload(u) \/ SaveFile(u) \/ InsertRow(u) \/ CountUpload(u)
       \/ StartSession(u) \/ ReserveUpload(u)
       \/ LoadSession(u) \/ ReadFile(u) \/ SearchDuplicate(u)
       \/ DropDuplicateFile(u) \/ DropDuplicateRow(u) \/ Finalize(u)
  \/ \E m \in MediaIds : ClientPuts(m)
  \/ UploadServerDies

-----------------------------------------------------------------------------
(* Properties *)

\* A medium that is ready has its file, unless a removal of it was begun: by a
\* user, by the cleanup, or as a duplicate.
ReadyMediaHasFile ==
  \A m \in MediaIds :
    row[m].status = "ready" /\ m \notin removing => object[m] # "none"

\* Overlapping requests pass the quota of stored files by one file each; a
\* session that is pending counts against it like a file.
StoredNearLimit == Cardinality(Stored) <= StoredLimit + Cardinality(MediaRequests) - 1

\* The safety of the library: what posts use is kept, what is ready has its
\* file, and the quota is passed by overlapping requests only.
LibrarySafety == AttachedMediaIsKept /\ ReadyMediaHasFile /\ StoredNearLimit
=============================================================================
