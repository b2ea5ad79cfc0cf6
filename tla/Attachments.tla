---------------------------- MODULE Attachments ----------------------------
(***************************************************************************)
(* Files attached to tasks and comments (src/apps/attachments) under       *)
(* concurrent requests, while projects and their members change.           *)
(*                                                                         *)
(* Unlike the project and task services, these take no lock.  An upload is *)
(* a chain of queries, each a step of its own: the view reads the parent   *)
(* with its project; the service reads the caller's membership and decides *)
(* with the project as the view has read it; it adds up the sizes of all   *)
(* files, then of the project's files; it inserts the row.  A deletion     *)
(* reads the row, then the membership, then saves the row.                 *)
(*                                                                         *)
(* Each project has one task and one comment on it that files are attached *)
(* to, and members that are not its owner.  Names, content types and       *)
(* checksums are left out.                                                 *)
(***************************************************************************)
EXTENDS Naturals, FiniteSets, Policies

CONSTANTS
    User,       \* the accounts that send requests
    Project,    \* project ids
    Slot,       \* attachment ids the database can hand out
    Client,     \* request workers
    AskedRoles, \* bound: the roles that members are given
    Settings,   \* bound: what changes in the projects
    AskedOps,   \* bound: the operations that requests ask for
    AskedSizes, \* bound: the sizes of uploaded files
    MaxFile,    \* ATTACHMENT_MAX_FILE_SIZE_BYTES
    MaxProject, \* ATTACHMENT_MAX_PROJECT_BYTES
    MaxTotal,   \* ATTACHMENT_MAX_TOTAL_BYTES
    None        \* no row, no request, nobody

ASSUME LimitsAssumption ==
    /\ MaxFile \in Nat /\ MaxProject \in Nat /\ MaxTotal \in Nat
    /\ AskedSizes \subseteq Nat
ASSUME AskedRolesAssumption == AskedRoles \subseteq Roles \ {"owner"}
ASSUME ClientAssumption == IsFiniteSet(Client) /\ Client # {}

VARIABLES
    project,    \* project -> its row, and whether its task and comment exist
    role,       \* project -> user -> role of the active membership, or NoRole
    file,       \* slot -> the attachment row, or None
    request     \* worker -> the request it is serving, or None

vars == <<project, role, file, request>>

ProjectRow == [live: BOOLEAN, open: BOOLEAN, public: BOOLEAN,
               anyoneComments: BOOLEAN, task: BOOLEAN, comment: BOOLEAN]
FileRow    == [project: Project, on: {"task", "comment"}, uploader: User,
               size: 0..MaxFile, deletedBy: User \cup {None}]

(* What a worker holds after each of its queries: for an upload the        *)
(* project as the view read it.                                            *)
Upload  == [op: {"upload"}, actor: User, project: Project, on: {"task", "comment"},
            size: AskedSizes, seen: ProjectRow,
            step: {"seen", "authorised", "fits_total", "fits_project"}]
Removal == [op: {"delete"}, actor: User, slot: Slot, step: {"seen", "authorised"}]

ASSUME NoneAssumption ==
    None \notin User /\ None \notin FileRow /\ None \notin Upload /\ None \notin Removal

TypeOK ==
    /\ project \in [Project -> ProjectRow]
    /\ role \in [Project -> [User -> (Roles \ {"owner"}) \cup {NoRole}]]
    /\ file \in [Slot -> FileRow \cup {None}]
    /\ request \in [Client -> Upload \cup Removal \cup {None}]

(* A project with a task, a comment and members, as the services leave it. *)
Init ==
    /\ project \in [Project -> [live: {TRUE}, open: {TRUE}, public: {FALSE},
                                anyoneComments: {FALSE}, task: {TRUE}, comment: {TRUE}]]
    /\ role \in [Project -> [User -> AskedRoles]]
    /\ file = [s \in Slot |-> None]
    /\ request = [c \in Client |-> None]

-----------------------------------------------------------------------------
(* The projects change: modules Membership, Lifecycle and Tasks.           *)

ProjectChanges(p) ==
    /\ project[p].live
    /\ \/ /\ "open" \in Settings
          /\ project' = [project EXCEPT ![p].open = ~@]
          /\ UNCHANGED role
       \/ /\ "public" \in Settings
          /\ project' = [project EXCEPT ![p].public = ~@]
          /\ UNCHANGED role
       \/ /\ "policy" \in Settings
          /\ project' = [project EXCEPT ![p].anyoneComments = ~@]
          /\ UNCHANGED role
       \/ /\ "task" \in Settings /\ project[p].task
          /\ project' = [project EXCEPT ![p].task = FALSE]
          /\ UNCHANGED role
       \/ /\ "comment" \in Settings /\ project[p].comment /\ project[p].task
          /\ project' = [project EXCEPT ![p].comment = FALSE]
          /\ UNCHANGED role
       \/ /\ "members" \in Settings
          /\ \E u \in User, r \in AskedRoles \cup {NoRole} :
                role' = [role EXCEPT ![p][u] = r]
          /\ UNCHANGED project
       \/ /\ "live" \in Settings
          /\ project' = [project EXCEPT ![p].live = FALSE]
          /\ role' = [role EXCEPT ![p] = [u \in User |-> NoRole]]
    /\ UNCHANGED <<file, request>>

-----------------------------------------------------------------------------
(* Reading.                                                                *)

Exists(s)  == file[s] # None /\ file[s].deletedBy = None
Visible(u, p) == project[p].live /\ (project[p].public \/ role[p][u] # NoRole)

(* task_for_user_or_404. *)
TaskVisible(u, p) ==
    Visible(u, p) /\ project[p].task /\ CanReadTask(role[p][u], project[p].public)

ProjectFiles(p) == {s \in Slot : Exists(s) /\ file[s].project = p}

(* Sum("size_bytes"): each byte is a pair of the file and its place in it. *)
Sum(size) == Cardinality(UNION {{x} \X (1..size[x]) : x \in DOMAIN size})

Sizes(files)    == [s \in files |-> file[s].size]
TotalBytes      == Sum(Sizes({s \in Slot : Exists(s)}))
ProjectBytes(p) == Sum(Sizes(ProjectFiles(p)))

-----------------------------------------------------------------------------
(* Requests.                                                               *)

ReceiveUpload(c) ==
    /\ request[c] = None
    /\ "upload" \in AskedOps
    /\ \E u \in User, p \in Project, on \in {"task", "comment"}, size \in AskedSizes :
        /\ TaskVisible(u, p)
        /\ on = "comment" => project[p].comment
        /\ request' = [request EXCEPT ![c] =
                [op |-> "upload", actor |-> u, project |-> p, on |-> on,
                 size |-> size, seen |-> project[p], step |-> "seen"]]
    /\ UNCHANGED <<project, role, file>>

ReceiveDelete(c) ==
    /\ request[c] = None
    /\ "delete" \in AskedOps
    /\ \E u \in User, s \in Slot :
        /\ Exists(s)
        /\ request' = [request EXCEPT ![c] =
                [op |-> "delete", actor |-> u, slot |-> s, step |-> "seen"]]
    /\ UNCHANGED <<project, role, file>>

At(c, op, step) ==
    /\ request[c] # None
    /\ request[c].op = op
    /\ request[c].step = step

(* Go on to the next query if this one allows it, else answer an error. *)
Continue(c, allowed, step) ==
    /\ request' = [request EXCEPT ![c] = IF allowed THEN [@ EXCEPT !.step = step] ELSE None]
    /\ UNCHANGED <<project, role, file>>

(* Mutant of CanUpload: the state of the project is left to the role check. *)
CanUploadClosed(q) ==
    LET r == role[q.project][q.actor]
    IN  IF q.on = "task"
        THEN r \in WritableTaskRoles
        ELSE CanCommentTask(r, q.seen.public, q.seen.anyoneComments)

(* ensure_upload_allowed: the role as it is now, the project as the view   *)
(* has read it.  membership_for_user knows no members of deleted projects. *)
CanUpload(q) ==
    LET r == role[q.project][q.actor]
    IN  IF q.on = "task"
        THEN CanWriteTask(r, q.seen.open)
        ELSE CanCommentTask(r, q.seen.public, q.seen.anyoneComments)

(* Mutant of ValidSize: the size of a single file is not limited. *)
AnySize(size) == TRUE

ValidSize(size) == size <= MaxFile

(* Mutant of Fits: only what is there already is compared. *)
NotYetFull(used, size, limit) == used <= limit

Fits(used, size, limit) == used + size <= limit

AuthoriseUpload(c) ==
    /\ At(c, "upload", "seen")
    /\ Continue(c, CanUpload(request[c]) /\ ValidSize(request[c].size), "authorised")

MeasureTotal(c) ==
    /\ At(c, "upload", "authorised")
    /\ Continue(c, Fits(TotalBytes, request[c].size, MaxTotal), "fits_total")

MeasureProject(c) ==
    /\ At(c, "upload", "fits_total")
    /\ Continue(c, Fits(ProjectBytes(request[c].project), request[c].size, MaxProject),
                "fits_project")

Store(c) ==
    /\ At(c, "upload", "fits_project")
    /\ \E s \in {x \in Slot : file[x] = None} :
        file' = [file EXCEPT ![s] =
            [project |-> request[c].project, on |-> request[c].on,
             uploader |-> request[c].actor, size |-> request[c].size,
             deletedBy |-> None]]
    /\ request' = [request EXCEPT ![c] = None]
    /\ UNCHANGED <<project, role>>

AuthoriseDelete(c) ==
    /\ At(c, "delete", "seen")
    /\ LET q == request[c]
           f == file[q.slot]
       IN  Continue(c, CanDeleteAttachment(q.actor, role[f.project][q.actor], f.uploader),
                    "authorised")

(* The row is saved as this request has read it, whoever deleted it since. *)
SaveDeletion(c) ==
    /\ At(c, "delete", "authorised")
    /\ file' = [file EXCEPT ![request[c].slot].deletedBy = request[c].actor]
    /\ request' = [request EXCEPT ![c] = None]
    /\ UNCHANGED <<project, role>>

Serve(c) ==
    \/ AuthoriseUpload(c) \/ MeasureTotal(c) \/ MeasureProject(c) \/ Store(c)
    \/ AuthoriseDelete(c) \/ SaveDeletion(c)

Next ==
    \/ \E p \in Project : ProjectChanges(p)
    \/ \E c \in Client : ReceiveUpload(c) \/ ReceiveDelete(c) \/ Serve(c)

Spec == Init /\ [][Next]_vars

-----------------------------------------------------------------------------
(* Overlapping uploads that measured before one another's insertion exceed *)
(* a quota, but by less than one file for every worker: however they       *)
(* interleave with deletions, the excess does not add up.                  *)
Excess == (Cardinality(Client) - 1) * MaxFile
ExcessIsBounded ==
    /\ TotalBytes <= MaxTotal + Excess
    /\ \A p \in Project : ProjectBytes(p) <= MaxProject + Excess

(* Once a project is closed, only uploads that had found it open before    *)
(* still add a file to a task.                                             *)
LateUploadsWereUnderWay ==
    [][\A s \in Slot :
        (file[s] = None /\ file'[s] # None /\ file'[s].on = "task") =>
            \/ project[file'[s].project].open
            \/ \E c \in Client :
                /\ request[c] # None
                /\ request'[c] = None
                /\ request[c].seen.open]_vars

=============================================================================
