---------------------------- MODULE MediaLibrary -----------------------------
(* The media of a workspace, the posts and variants that use them, and the  *)
(* two ways to remove one: a user deletes it (handlers/media.go), or the    *)
(* cleanup job finds it unused (queue/worker.go).  Each reads references    *)
(* first and deletes the file and the row later; the file may be removed    *)
(* and the process die before the row is.                                   *)
EXTENDS Naturals, FiniteSets, TLC

CONSTANTS
  MediaIds,
  MediaPosts,   \* posts, each with one variant
  Deleters      \* requests that delete media

VARIABLES
  row,       \* rows of media_attachments
  object,    \* files in the storage: the content, or "none"
  attached,  \* post_media: the media of each post
  inVariant, \* post_variants.media_ids
  published, \* posts that are published
  editor,    \* a request that changes the media of a post
  deleter,   \* what each deleting request knows
  cleanup,   \* what the cleanup handler knows
  late,      \* references made after a removal of the medium had begun
  removing   \* media whose files were told to be deleted

libraryVars == <<row, object, attached, inVariant, published, editor,
                 deleter, cleanup, late, removing>>

-----------------------------------------------------------------------------
Medium(s, h) == [status |-> s, hash |-> h, favorite |-> FALSE, old |-> FALSE]
NoMedium == Medium("none", "none")     \* an id nobody has
GoneMedium == Medium("gone", "none")   \* ids are not used twice
NoDeleter == [pc |-> "idle", m |-> "none", blocked |-> FALSE,
              copy |-> [p \in MediaPosts |-> {}]]
NoCleanup == [pc |-> "idle", todo |-> {}, m |-> "none"]
NoEditor == [pc |-> "idle", p |-> "none", media |-> {}, kind |-> "none"]

Exists(m) == row[m].status \notin {"none", "gone"}
Stored == {m \in MediaIds : Exists(m)}
Drafts == MediaPosts \ published

LibraryIdle ==
  /\ attached = [p \in MediaPosts |-> {}]
  /\ inVariant = [p \in MediaPosts |-> {}]
  /\ published = {}
  /\ editor = NoEditor
  /\ deleter = [d \in Deleters |-> NoDeleter]
  /\ cleanup = NoCleanup
  /\ late = {} /\ removing = {}

-----------------------------------------------------------------------------
(* Posts and their media *)

\* A removal of m has begun to read the references, or has gone further.
Going(m) ==
  \/ ~Exists(m) \/ m \in removing
  \/ m \in cleanup.todo
  \/ \E d \in Deleters : deleter[d].m = m /\ deleter[d].pc # "posts"

\* validateMediaBelongsToWorkspace: every medium has a row when it is asked.
ValidateMedia ==
  /\ editor.pc = "idle"
  /\ \E p \in Drafts, media \in SUBSET Stored, kind \in {"post", "variant"} :
       editor' = [pc |-> "write", p |-> p, media |-> media, kind |-> kind]
  /\ UNCHANGED <<row, object, attached, inVariant, published, deleter, cleanup, late, removing>>

References(p, kind) == IF kind = "post" THEN attached[p] ELSE inVariant[p]

WriteMedia ==
  LET p == editor.p
      new == {m \in editor.media \ References(p, editor.kind) : Going(m)}
      gone == References(p, editor.kind) \ editor.media
  IN  /\ editor.pc = "write"
      /\ IF editor.kind = "post"
         THEN attached' = [attached EXCEPT ![p] = editor.media] /\ UNCHANGED inVariant
         ELSE inVariant' = [inVariant EXCEPT ![p] = editor.media] /\ UNCHANGED attached
      /\ late' = (late \cup {<<p, m, editor.kind>> : m \in new})
                   \ {<<p, m, editor.kind>> : m \in gone}
      /\ editor' = NoEditor
      /\ UNCHANGED <<row, object, published, deleter, cleanup, removing>>

PostIsPublished(p) ==
  /\ p \in Drafts
  /\ published' = published \cup {p}
  /\ UNCHANGED <<row, object, attached, inVariant, editor, deleter, cleanup, late, removing>>

\* The favorite flag is read, turned, and written.
ToggleFavorite(m) ==
  /\ Exists(m)
  /\ row' = [row EXCEPT ![m].favorite = ~@]
  /\ UNCHANGED <<object, attached, inVariant, published, editor, deleter, cleanup, late, removing>>

Ages(m) ==
  /\ Exists(m) /\ ~row[m].old
  /\ row' = [row EXCEPT ![m].old = TRUE]
  /\ UNCHANGED <<object, attached, inVariant, published, editor, deleter, cleanup, late, removing>>

-----------------------------------------------------------------------------
(* A user deletes a medium *)

SetDeleter(d, r) == deleter' = [deleter EXCEPT ![d] = r]

StartDelete(d) ==
  /\ deleter[d].pc = "idle"
  /\ \E m \in Stored : SetDeleter(d, [NoDeleter EXCEPT !.pc = "posts", !.m = m])
  /\ UNCHANGED <<row, object, attached, inVariant, published, editor, cleanup, late, removing>>

\* postsUsingMedia asks for posts first, and then for variants.
ReadPosts(d) ==
  /\ deleter[d].pc = "posts"
  /\ SetDeleter(d, [deleter[d] EXCEPT !.pc = "variants",
       !.blocked = \E p \in Drafts : deleter[d].m \in attached[p]])
  /\ UNCHANGED <<row, object, attached, inVariant, published, editor, cleanup, late, removing>>

\* Mutant: a medium that only a variant uses does not count as used.
UsedIgnoringVariants(d) == deleter[d].blocked

Used(d) == deleter[d].blocked \/ \E p \in Drafts : deleter[d].m \in inVariant[p]

ReadVariants(d) ==
  /\ deleter[d].pc = "variants"
  /\ SetDeleter(d, IF Used(d) THEN NoDeleter ELSE [deleter[d] EXCEPT !.pc = "files"])
  /\ UNCHANGED <<row, object, attached, inVariant, published, editor, cleanup, late, removing>>

DeleteFiles(d) ==
  /\ deleter[d].pc = "files"
  /\ object' = [object EXCEPT ![deleter[d].m] = "none"]
  /\ removing' = removing \cup {deleter[d].m}
  /\ SetDeleter(d, [deleter[d] EXCEPT !.pc = "references"])
  /\ UNCHANGED <<row, attached, inVariant, published, editor, cleanup, late>>

\* On a local disk a file that is gone is an error too.
DeleteFilesFails(d) ==
  /\ deleter[d].pc = "files"
  /\ SetDeleter(d, NoDeleter)
  /\ UNCHANGED <<row, object, attached, inVariant, published, editor, cleanup, late, removing>>

RemovePostMedia(d) ==
  LET m == deleter[d].m IN
  /\ deleter[d].pc = "references"
  /\ attached' = [p \in MediaPosts |-> attached[p] \ {m}]
  /\ late' = late \ {<<p, m, "post">> : p \in MediaPosts}
  /\ SetDeleter(d, [deleter[d] EXCEPT !.pc = "row",
       !.copy = [p \in MediaPosts |-> IF m \in inVariant[p] THEN inVariant[p] ELSE {}]])
  /\ UNCHANGED <<row, object, inVariant, published, editor, cleanup, removing>>

\* Each variant that was read with the medium is written without it.
RewriteVariant(d) ==
  LET m == deleter[d].m IN
  /\ deleter[d].pc = "row"
  /\ \E p \in MediaPosts :
       /\ deleter[d].copy[p] # {}
       /\ inVariant' = [inVariant EXCEPT ![p] = deleter[d].copy[p] \ {m}]
       /\ late' = (late \ {<<p, k, "variant">> : k \in {m} \cup (inVariant[p] \ deleter[d].copy[p])})
                    \cup {<<p, k, "variant">> : k \in (deleter[d].copy[p] \ {m}) \ inVariant[p]}
       /\ SetDeleter(d, [deleter[d] EXCEPT !.copy[p] = {}])
  /\ UNCHANGED <<row, object, attached, published, editor, cleanup, removing>>

DeleteRow(d) ==
  /\ deleter[d].pc = "row"
  /\ \A p \in MediaPosts : deleter[d].copy[p] = {}
  /\ row' = [row EXCEPT ![deleter[d].m] = GoneMedium]
  /\ SetDeleter(d, NoDeleter)
  /\ UNCHANGED <<object, attached, inVariant, published, editor, cleanup, late, removing>>

-----------------------------------------------------------------------------
(* The cleanup job *)

Unused == {m \in Stored : row[m].old /\ ~row[m].favorite
                            /\ \A p \in MediaPosts : m \notin attached[p]}

SelectUnused ==
  /\ cleanup.pc = "idle"
  /\ cleanup' = [NoCleanup EXCEPT !.pc = "variants", !.todo = Unused]
  /\ UNCHANGED <<row, object, attached, inVariant, published, editor, deleter, late, removing>>

VariantMediaIDs == UNION {inVariant[p] : p \in MediaPosts}

SkipVariantMedia ==
  /\ cleanup.pc = "variants"
  /\ cleanup' = [cleanup EXCEPT !.pc = "delete", !.todo = @ \ VariantMediaIDs]
  /\ UNCHANGED <<row, object, attached, inVariant, published, editor, deleter, late, removing>>

\* Errors of the storage are logged, and the row is deleted all the same.
DeleteUnusedFile ==
  /\ cleanup.pc = "delete"
  /\ \E m \in cleanup.todo :
       /\ cleanup' = [cleanup EXCEPT !.pc = "row", !.m = m]
       /\ removing' = removing \cup {m}
       /\ \/ object' = [object EXCEPT ![m] = "none"]
          \/ UNCHANGED object
  /\ UNCHANGED <<row, attached, inVariant, published, editor, deleter, late>>

DeleteUnusedRow ==
  /\ cleanup.pc = "row"
  /\ row' = [row EXCEPT ![cleanup.m] = GoneMedium]
  /\ cleanup' = [cleanup EXCEPT !.pc = "delete", !.todo = @ \ {cleanup.m}, !.m = "none"]
  /\ UNCHANGED <<object, attached, inVariant, published, editor, deleter, late, removing>>

EndCleanup ==
  /\ cleanup.pc = "delete" /\ cleanup.todo = {}
  /\ cleanup' = NoCleanup
  /\ UNCHANGED <<row, object, attached, inVariant, published, editor, deleter, late, removing>>

\* The process dies: what requests and the handler knew is gone.
LibraryServerDies ==
  /\ cleanup.pc # "idle" \/ \E d \in Deleters : deleter[d].pc # "idle"
  /\ cleanup' = NoCleanup
  /\ deleter' = [d \in Deleters |-> NoDeleter]
  /\ editor' = NoEditor
  /\ UNCHANGED <<row, object, attached, inVariant, published, late, removing>>

LibraryNext ==
  \/ ValidateMedia \/ WriteMedia
  \/ \E p \in MediaPosts : PostIsPublished(p)
  \/ \E m \in MediaIds : ToggleFavorite(m) \/ Ages(m)
  \/ \E d \in Deleters :
       \/ StartDelete(d) \/ ReadPosts(d) \/ ReadVariants(d)
       \/ DeleteFiles(d) \/ DeleteFilesFails(d)
       \/ RemovePostMedia(d) \/ RewriteVariant(d) \/ DeleteRow(d)
  \/ SelectUnused \/ SkipVariantMedia
  \/ DeleteUnusedFile \/ DeleteUnusedRow \/ EndCleanup
  \/ LibraryServerDies

-----------------------------------------------------------------------------
(* Properties *)

Kept(m) == Exists(m) /\ object[m] # "none"

\* A medium that a post waiting to be published uses, in its own list or in a
\* variant, is neither deleted by a user nor cleaned up, if the reference was
\* made before the removal looked for references.
AttachedMediaIsKept ==
  \A p \in Drafts :
    /\ \A m \in attached[p] : <<p, m, "post">> \in late \/ Kept(m)
    /\ \A m \in inVariant[p] : <<p, m, "variant">> \in late \/ Kept(m)
=============================================================================
