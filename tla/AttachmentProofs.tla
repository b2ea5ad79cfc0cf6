-------------------------- MODULE AttachmentProofs --------------------------
(***************************************************************************)
(* What holds of Attachments for every number of users, projects, files    *)
(* and requests, and every quota.                                          *)
(*                                                                         *)
(* An upload carries the project as its view read it from query to query;  *)
(* the invariant says what each query has established of it.  For the      *)
(* quotas, what uploads have measured room for is counted with what is     *)
(* stored.                                                                 *)
(***************************************************************************)
EXTENDS Attachments, FiniteSetTheorems, TLAPS

Busy(c, op) == request[c] # None /\ request[c].op = op

(* An upload that was authorised is small enough, and for a task had found *)
(* the project open.                                                       *)
AuthorisedUploads ==
    \A c \in Client : (Busy(c, "upload") /\ request[c].step # "seen") =>
        /\ request[c].size <= MaxFile
        /\ request[c].on = "task" => request[c].seen.open

(* A row that a deletion has read does not go away.                        *)
DeletionsFindTheirRow ==
    \A c \in Client : Busy(c, "delete") => file[request[c].slot] # None

IInv == TypeOK /\ AuthorisedUploads /\ DeletionsFindTheirRow

-----------------------------------------------------------------------------
(* What a request carries.                                                 *)
LEMMA RequestFields ==
    ASSUME TypeOK, NEW c \in Client, request[c] # None
    PROVE  \/ request[c] \in Upload /\ request[c].op = "upload"
           \/ request[c] \in Removal /\ request[c].op = "delete"
BY DEF TypeOK, Upload, Removal

LEMMA UploadFields ==
    ASSUME NEW q \in Upload
    PROVE  /\ q.actor \in User /\ q.project \in Project /\ q.on \in {"task", "comment"}
           /\ q.size \in Nat /\ q.seen \in ProjectRow /\ q.seen.open \in BOOLEAN
BY LimitsAssumption DEF Upload, ProjectRow

LEMMA IInvInit == Init => IInv
<1> SUFFICES ASSUME Init PROVE IInv
    OBVIOUS
<1>1. TypeOK
    <2>1. project \in [Project -> ProjectRow]
        BY DEF Init, ProjectRow
    <2>2. role \in [Project -> [User -> (Roles \ {"owner"}) \cup {NoRole}]]
        BY AskedRolesAssumption DEF Init
    <2>3. QED
        BY <2>1, <2>2 DEF Init, TypeOK
<1>2. QED
    BY <1>1 DEF Init, IInv, AuthorisedUploads, DeletionsFindTheirRow, Busy

LEMMA ChangesKeepIInv == ASSUME IInv, NEW p \in Project, ProjectChanges(p) PROVE IInv'
<1>1. project' \in [Project -> ProjectRow]
    <2>1. project[p] \in ProjectRow /\ project \in [Project -> ProjectRow]
        BY DEF IInv, TypeOK
    <2>2. /\ [project[p] EXCEPT !.open = ~@] \in ProjectRow
          /\ [project[p] EXCEPT !.public = ~@] \in ProjectRow
          /\ [project[p] EXCEPT !.anyoneComments = ~@] \in ProjectRow
        BY <2>1 DEF ProjectRow
    <2>3. /\ [project[p] EXCEPT !.task = FALSE] \in ProjectRow
          /\ [project[p] EXCEPT !.comment = FALSE] \in ProjectRow
          /\ [project[p] EXCEPT !.live = FALSE] \in ProjectRow
        BY <2>1 DEF ProjectRow
    <2>4. QED
        BY <2>1, <2>2, <2>3 DEF ProjectChanges
<1>2. role' \in [Project -> [User -> (Roles \ {"owner"}) \cup {NoRole}]]
    BY AskedRolesAssumption DEF ProjectChanges, IInv, TypeOK
<1>3. UNCHANGED <<file, request>>
    BY DEF ProjectChanges
<1>4. QED
    BY <1>1, <1>2, <1>3 DEF IInv, TypeOK, AuthorisedUploads, DeletionsFindTheirRow, Busy

(* A worker takes a new request.                                           *)
LEMMA ReceiveKeepsIInv ==
    ASSUME IInv, NEW c \in Client, NEW q \in Upload \cup Removal, q.step = "seen",
           q.op = "delete" => file[q.slot] # None,
           request' = [request EXCEPT ![c] = q], UNCHANGED <<project, role, file>>
    PROVE  IInv'
BY DEF IInv, TypeOK, AuthorisedUploads, DeletionsFindTheirRow, Busy

(* A request goes on with its next query, or is answered an error.         *)
LEMMA ContinueKeepsIInv ==
    ASSUME IInv, NEW c \in Client, NEW allowed, NEW step, Continue(c, allowed, step),
           allowed => \/ /\ request[c] \in Upload /\ Busy(c, "upload")
                         /\ step \in {"authorised", "fits_total", "fits_project"}
                         /\ request[c].size <= MaxFile
                         /\ request[c].on = "task" => request[c].seen.open
                      \/ /\ request[c] \in Removal /\ Busy(c, "delete")
                         /\ step = "authorised"
    PROVE  IInv'
<1> DEFINE q == [request[c] EXCEPT !.step = step]
<1>1. UNCHANGED <<project, role, file>>
    BY DEF Continue
<1>2. CASE ~allowed
    <2>1. request' = [request EXCEPT ![c] = None]
        BY <1>2 DEF Continue
    <2>2. QED
        BY <1>1, <2>1 DEF IInv, TypeOK, AuthorisedUploads, DeletionsFindTheirRow, Busy
<1>3. CASE allowed
    <2>1. request' = [request EXCEPT ![c] = q]
        BY <1>3 DEF Continue
    <2>2. q \in Upload \cup Removal
        BY <1>3 DEF Upload, Removal
    <2>3. /\ q.op = "upload" => q.size <= MaxFile /\ (q.on = "task" => q.seen.open)
          /\ q.op = "delete" => file[q.slot] # None
        BY <1>3 DEF Upload, Removal, Busy, IInv, DeletionsFindTheirRow
    <2> HIDE DEF q
    <2>4. QED
        BY <1>1, <2>1, <2>2, <2>3
        DEF IInv, TypeOK, AuthorisedUploads, DeletionsFindTheirRow, Busy
<1>4. QED
    BY <1>2, <1>3

(* The file a request stores.                                              *)
Stored(c) == [project |-> request[c].project, on |-> request[c].on,
              uploader |-> request[c].actor, size |-> request[c].size,
              deletedBy |-> None]

LEMMA StoreKeepsIInv == ASSUME IInv, NEW c \in Client, Store(c) PROVE IInv'
<1>1. request[c] \in Upload /\ request[c].size <= MaxFile
    BY RequestFields DEF Store, At, IInv, AuthorisedUploads, Busy
<1>2. PICK s \in Slot : file[s] = None /\ file' = [file EXCEPT ![s] = Stored(c)]
    BY DEF Store, Stored
<1>3. Stored(c) \in FileRow
    BY <1>1, UploadFields, LimitsAssumption DEF Stored, FileRow
<1>4. request' = [request EXCEPT ![c] = None] /\ UNCHANGED <<project, role>>
    BY DEF Store
<1>5. TypeOK'
    BY <1>2, <1>3, <1>4 DEF IInv, TypeOK
<1>6. AuthorisedUploads'
    BY <1>4 DEF IInv, TypeOK, AuthorisedUploads, Busy
<1>7. DeletionsFindTheirRow'
    BY <1>2, <1>3, <1>4, NoneAssumption DEF IInv, TypeOK, DeletionsFindTheirRow, Busy
<1>8. QED
    BY <1>5, <1>6, <1>7 DEF IInv

LEMMA DeletionKeepsIInv == ASSUME IInv, NEW c \in Client, SaveDeletion(c) PROVE IInv'
<1> DEFINE s == request[c].slot
<1>1. s \in Slot /\ request[c].actor \in User /\ file[s] \in FileRow
    <2>1. request[c] \in Removal /\ Busy(c, "delete")
        BY RequestFields DEF SaveDeletion, At, IInv, Busy
    <2>2. file[s] # None
        BY <2>1 DEF IInv, DeletionsFindTheirRow
    <2>3. QED
        BY <2>1, <2>2 DEF Removal, IInv, TypeOK
<1>2. /\ file' = [file EXCEPT ![s].deletedBy = request[c].actor]
      /\ request' = [request EXCEPT ![c] = None] /\ UNCHANGED <<project, role>>
    BY DEF SaveDeletion
<1>3. file'[s] \in FileRow
    BY <1>1, <1>2 DEF IInv, TypeOK, FileRow
<1>4. TypeOK'
    BY <1>1, <1>2, <1>3 DEF IInv, TypeOK
<1>5. AuthorisedUploads'
    BY <1>2 DEF IInv, TypeOK, AuthorisedUploads, Busy
<1>6. DeletionsFindTheirRow'
    <2> SUFFICES ASSUME NEW d \in Client, Busy(d, "delete")'
                 PROVE  file'[request'[d].slot] # None
        BY DEF DeletionsFindTheirRow
    <2>1. Busy(d, "delete") /\ request'[d] = request[d]
        BY <1>2 DEF IInv, TypeOK, Busy
    <2>2. request[d].slot \in Slot /\ file[request[d].slot] # None
        BY <2>1, RequestFields DEF IInv, DeletionsFindTheirRow, Busy, Removal
    <2>3. file'[s] # None
        BY <1>3, NoneAssumption
    <2>4. QED
        BY <1>2, <2>1, <2>2, <2>3 DEF IInv, TypeOK
<1>7. QED
    BY <1>4, <1>5, <1>6 DEF IInv

-----------------------------------------------------------------------------
LEMMA ServeKeepsIInv == ASSUME IInv, NEW c \in Client, Serve(c) PROVE IInv'
<1>1. CASE AuthoriseUpload(c)
    <2>1. request[c] \in Upload /\ Busy(c, "upload")
        BY <1>1, RequestFields DEF AuthoriseUpload, At, IInv, Busy
    <2>2. CanUpload(request[c]) /\ ValidSize(request[c].size) =>
            request[c].size <= MaxFile /\ (request[c].on = "task" => request[c].seen.open)
        BY DEF CanUpload, ValidSize, CanWriteTask
    <2>3. QED
        BY <1>1, <2>1, <2>2, ContinueKeepsIInv DEF AuthoriseUpload
<1>2. CASE MeasureTotal(c) \/ MeasureProject(c)
    <2>1. request[c] \in Upload /\ Busy(c, "upload") /\ request[c].step # "seen"
        BY <1>2, RequestFields DEF MeasureTotal, MeasureProject, At, IInv, Busy
    <2>2. request[c].size <= MaxFile /\ (request[c].on = "task" => request[c].seen.open)
        BY <2>1 DEF IInv, AuthorisedUploads
    <2>3. QED
        BY <1>2, <2>1, <2>2, ContinueKeepsIInv DEF MeasureTotal, MeasureProject
<1>3. CASE AuthoriseDelete(c)
    <2>1. request[c] \in Removal /\ Busy(c, "delete")
        BY <1>3, RequestFields DEF AuthoriseDelete, At, IInv, Busy
    <2>2. QED
        BY <1>3, <2>1, ContinueKeepsIInv DEF AuthoriseDelete
<1>4. QED
    BY <1>1, <1>2, <1>3, StoreKeepsIInv, DeletionKeepsIInv DEF Serve

LEMMA IInvNext == IInv /\ [Next]_vars => IInv'
<1> SUFFICES ASSUME IInv, [Next]_vars PROVE IInv'
    OBVIOUS
<1>1. ASSUME NEW c \in Client, ReceiveUpload(c) PROVE IInv'
    <2>1. PICK u \in User, p \in Project, on \in {"task", "comment"}, size \in AskedSizes :
            request' = [request EXCEPT ![c] =
                [op |-> "upload", actor |-> u, project |-> p, on |-> on,
                 size |-> size, seen |-> project[p], step |-> "seen"]]
        BY <1>1 DEF ReceiveUpload
    <2> DEFINE q == [op |-> "upload", actor |-> u, project |-> p, on |-> on,
                     size |-> size, seen |-> project[p], step |-> "seen"]
    <2>2. q \in Upload /\ q.step = "seen" /\ q.op # "delete"
        BY DEF IInv, TypeOK, Upload
    <2> HIDE DEF q
    <2>3. QED
        BY <1>1, <2>1, <2>2, ReceiveKeepsIInv DEF ReceiveUpload, q
<1>2. ASSUME NEW c \in Client, ReceiveDelete(c) PROVE IInv'
    <2>1. PICK u \in User, s \in Slot :
            /\ Exists(s)
            /\ request' = [request EXCEPT ![c] =
                [op |-> "delete", actor |-> u, slot |-> s, step |-> "seen"]]
        BY <1>2 DEF ReceiveDelete
    <2> DEFINE q == [op |-> "delete", actor |-> u, slot |-> s, step |-> "seen"]
    <2>2. q \in Removal /\ q.step = "seen" /\ file[q.slot] # None
        BY <2>1 DEF Removal, Exists
    <2> HIDE DEF q
    <2>3. QED
        BY <1>2, <2>1, <2>2, ReceiveKeepsIInv DEF ReceiveDelete, q
<1>3. CASE UNCHANGED vars
    BY <1>3 DEF vars, IInv, TypeOK, AuthorisedUploads, DeletionsFindTheirRow, Busy
<1>4. QED
    BY <1>1, <1>2, <1>3, ChangesKeepIInv, ServeKeepsIInv DEF Next

-----------------------------------------------------------------------------
(* Sums.  A byte of a sum is a pair, so that what is said of sums is said  *)
(* of sets of pairs.                                                       *)
Bytes(f) == UNION {{x} \X (1..f[x]) : x \in DOMAIN f}

LEMMA SumIsFinite ==
    ASSUME NEW S, IsFiniteSet(S), NEW m \in Nat, NEW f \in [S -> 0..m]
    PROVE  /\ IsFiniteSet(Bytes(f))
           /\ Sum(f) \in Nat
           /\ Sum(f) <= Cardinality(S) * m
<1>1. IsFiniteSet(1..m) /\ Cardinality(1..m) = m
    BY FS_Interval
<1>2. /\ IsFiniteSet(S \X (1..m))
      /\ Cardinality(S \X (1..m)) = Cardinality(S) * m
    BY <1>1, FS_Product
<1>3. Bytes(f) \in SUBSET (S \X (1..m))
    BY DEF Bytes
<1>4. IsFiniteSet(Bytes(f)) /\ Cardinality(Bytes(f)) <= Cardinality(S \X (1..m))
    BY <1>2, <1>3, FS_Subset
<1>5. Sum(f) = Cardinality(Bytes(f))
    BY DEF Sum, Bytes
<1>6. QED
    BY <1>2, <1>4, <1>5, FS_CardinalityType

LEMMA SumOfPart ==
    ASSUME NEW S, IsFiniteSet(S), NEW m \in Nat, NEW f \in [S -> 0..m],
           NEW T \in SUBSET S, NEW g \in [T -> 0..m], \A x \in T : g[x] = f[x]
    PROVE  Sum(g) \in Nat /\ Sum(g) <= Sum(f)
<1>1. IsFiniteSet(Bytes(f))
    BY SumIsFinite
<1>2. Bytes(g) \in SUBSET Bytes(f)
    BY DEF Bytes
<1>3. IsFiniteSet(Bytes(g)) /\ Cardinality(Bytes(g)) <= Cardinality(Bytes(f))
    BY <1>1, <1>2, FS_Subset
<1>4. QED
    BY <1>3, FS_CardinalityType DEF Sum, Bytes

LEMMA SumOfOneMore ==
    ASSUME NEW f, IsFiniteSet(Bytes(f)), NEW g, NEW x \in DOMAIN g, g[x] \in Nat,
           DOMAIN f = DOMAIN g \ {x}, \A y \in DOMAIN f : g[y] = f[y]
    PROVE  Sum(g) = Sum(f) + g[x]
<1> DEFINE New == {x} \X (1..g[x])
<1>1. IsFiniteSet(Bytes(f))
    OBVIOUS
<1>2. IsFiniteSet(1..g[x]) /\ Cardinality(1..g[x]) = g[x]
    BY FS_Interval
<1>3. IsFiniteSet({x}) /\ Cardinality({x}) = 1
    BY FS_Singleton
<1>4. IsFiniteSet(New) /\ Cardinality(New) = g[x]
    <2>1. IsFiniteSet(New) /\ Cardinality(New) = Cardinality({x}) * Cardinality(1..g[x])
        BY <1>2, <1>3, FS_Product
    <2>2. Cardinality(New) = 1 * g[x]
        BY <1>2, <1>3, <2>1, Zenon
    <2>3. QED
        BY <1>2, <2>1, <2>2
<1>5. Bytes(g) = Bytes(f) \cup New
    <2>1. DOMAIN g = DOMAIN f \cup {x}
        OBVIOUS
    <2>2. ASSUME NEW b \in Bytes(g) PROVE b \in Bytes(f) \cup New
        <3>1. PICK y \in DOMAIN f \cup {x} : b \in {y} \X (1..g[y])
            BY <2>1, <2>2 DEF Bytes
        <3>2. CASE y = x
            BY <3>1, <3>2
        <3>3. CASE y \in DOMAIN f
            BY <2>1, <3>1, <3>3 DEF Bytes
        <3>4. QED
            BY <3>2, <3>3
    <2>3. ASSUME NEW b \in Bytes(f) PROVE b \in Bytes(g)
        <3>1. PICK y \in DOMAIN f : b \in {y} \X (1..f[y])
            BY <2>1, <2>3 DEF Bytes
        <3>2. b \in {y} \X (1..g[y]) /\ y \in DOMAIN g
            BY <2>1, <3>1
        <3>3. QED
            BY <3>2 DEF Bytes
    <2>4. New \subseteq Bytes(g)
        BY <2>1 DEF Bytes
    <2>5. QED
        BY <2>2, <2>3, <2>4
<1>6. Bytes(f) \cap New = {}
    BY DEF Bytes
<1>7. Cardinality(Bytes(g)) = Cardinality(Bytes(f)) + Cardinality(New)
    <2>1. Cardinality(Bytes(f) \cup New)
            = Cardinality(Bytes(f)) + Cardinality(New) - Cardinality(Bytes(f) \cap New)
        BY <1>1, <1>4, FS_Union
    <2>2. Cardinality(Bytes(f) \cap New) = 0
        BY <1>6, FS_EmptySet
    <2>3. Cardinality(Bytes(f)) \in Nat
        BY <1>1, FS_CardinalityType
    <2>4. QED
        BY <1>2, <1>4, <1>5, <2>1, <2>2, <2>3
<1>8. QED
    BY <1>4, <1>7 DEF Sum, Bytes

-----------------------------------------------------------------------------
(* Quotas.  An upload that has passed a measurement will add its bytes,    *)
(* whatever is stored in between; they are counted with the stored ones.   *)
Filled   == {s \in Slot : file[s] # None}
Kept     == {s \in Slot : Exists(s)}
Measured == {c \in Client : Busy(c, "upload")
                                /\ request[c].step \in {"fits_total", "fits_project"}}
Cleared(p) == {c \in Measured : request[c].step = "fits_project" /\ request[c].project = p}
Promised(workers) == Sum([c \in workers |-> request[c].size])

(* The invariant of a quota: a measurement makes it true whatever was      *)
(* stored, as all but the one worker promise at most a file each; storing  *)
(* moves bytes from one sum to the other.                                  *)
FilesAreFinite == IsFiniteSet(Filled)
TotalInv       == TotalBytes + Promised(Measured) <= MaxTotal + Excess
ProjectInv     ==
    \A p \in Project : ProjectBytes(p) + Promised(Cleared(p)) <= MaxProject + Excess

QuotaInv == FilesAreFinite /\ TotalInv /\ ProjectInv

LEMMA ExcessIsNat == Excess \in Nat
<1>1. Cardinality(Client) \in Nat /\ Cardinality(Client) # 0
    BY ClientAssumption, FS_CardinalityType, FS_EmptySet
<1>2. \A a, b \in Nat : a * b \in Nat
    OBVIOUS
<1>3. Cardinality(Client) - 1 \in Nat
    BY <1>1
<1>4. QED
    BY <1>2, <1>3, LimitsAssumption DEF Excess

(* What the sums are taken of.                                             *)
LEMMA SizesAreBounded ==
    ASSUME IInv
    PROVE  /\ \A F \in SUBSET Filled : Sizes(F) \in [F -> 0..MaxFile]
           /\ \A W \in SUBSET Measured : [c \in W |-> request[c].size] \in [W -> 0..MaxFile]
<1>1. ASSUME NEW s \in Filled PROVE file[s].size \in 0..MaxFile
    <2>1. file[s] \in FileRow
        BY DEF IInv, TypeOK, Filled
    <2>2. QED
        BY <2>1 DEF FileRow
<1>2. ASSUME NEW c \in Measured PROVE request[c].size \in 0..MaxFile
    <2>1. request[c] \in Upload /\ request[c].size <= MaxFile
        BY RequestFields DEF IInv, AuthorisedUploads, Measured, Busy
    <2>2. request[c].size \in Nat
        BY <2>1, UploadFields
    <2>3. QED
        BY <2>1, <2>2, LimitsAssumption
<1>3. QED
    BY <1>1, <1>2 DEF Sizes

LEMMA SumsAreNat ==
    ASSUME IInv, FilesAreFinite, NEW F \in SUBSET Filled, NEW W \in SUBSET Measured
    PROVE  /\ IsFiniteSet(F) /\ IsFiniteSet(W)
           /\ Sum(Sizes(F)) \in Nat
           /\ Promised(W) \in Nat
<1>1. IsFiniteSet(F) /\ IsFiniteSet(W)
    BY FS_Subset, ClientAssumption DEF FilesAreFinite, Measured
<1>2. Sum(Sizes(F)) \in Nat
    BY <1>1, SizesAreBounded, SumIsFinite, LimitsAssumption
<1>3. Promised(W) \in Nat
    BY <1>1, SizesAreBounded, SumIsFinite, LimitsAssumption DEF Promised
<1>4. QED
    BY <1>1, <1>2, <1>3

(* All workers but one promise at most a file each.                        *)
LEMMA OthersPromiseLittle ==
    ASSUME IInv, FilesAreFinite, NEW c \in Client, NEW W \in SUBSET Measured, c \notin W
    PROVE  Promised(W) <= Excess
<1> DEFINE others == Client \ {c}
           f == [d \in others |-> IF d \in W THEN request[d].size ELSE 0]
           g == [d \in W |-> request[d].size]
<1>1. IsFiniteSet(others) /\ Cardinality(others) = Cardinality(Client) - 1
    BY ClientAssumption, FS_RemoveElement
<1>2. W \in SUBSET others
    BY DEF Measured
<1>3. g \in [W -> 0..MaxFile]
    BY SizesAreBounded
<1>4. f \in [others -> 0..MaxFile]
    BY <1>2, <1>3, LimitsAssumption
<1>5. Sum(f) \in Nat /\ Sum(f) <= (Cardinality(Client) - 1) * MaxFile
    BY <1>1, <1>4, SumIsFinite, LimitsAssumption
<1>6. Sum(g) \in Nat /\ Sum(g) <= Sum(f)
    <2>1. \A d \in W : g[d] = f[d]
        BY <1>2
    <2> HIDE DEF f, g
    <2>2. QED
        BY <1>1, <1>2, <1>3, <1>4, <2>1, SumOfPart, LimitsAssumption
<1>7. Sum(g) <= Excess /\ Promised(W) = Sum(g)
    <2>1. Excess \in Nat /\ Excess = (Cardinality(Client) - 1) * MaxFile
        BY ExcessIsNat DEF Excess
    <2>2. QED
        BY <1>5, <1>6, <2>1 DEF Promised
<1>8. QED
    BY <1>7

(* The three ways in which the sums of a quota change: files or workers    *)
(* leave; a worker joins that has just measured; a worker stores its file. *)
LEMMA QuotaShrinks ==
    ASSUME IInv, FilesAreFinite, NEW limit \in Nat,
           NEW F \in SUBSET Filled, NEW W \in SUBSET Measured,
           Sum(Sizes(F)) + Promised(W) <= limit + Excess,
           NEW F2 \in SUBSET F, \A s \in F2 : file'[s].size = file[s].size,
           NEW W2 \in SUBSET W, \A c \in W2 : request'[c].size = request[c].size
    PROVE  Sum(Sizes(F2))' + Promised(W2)' <= limit + Excess
<1> DEFINE files == [s \in F2 |-> file'[s].size]
           workers == [c \in W2 |-> request'[c].size]
<1>1. /\ IsFiniteSet(F) /\ IsFiniteSet(W)
      /\ Sum(Sizes(F)) \in Nat /\ Promised(W) \in Nat
    BY SumsAreNat
<1>2. /\ Sizes(F) \in [F -> 0..MaxFile]
      /\ [c \in W |-> request[c].size] \in [W -> 0..MaxFile]
    BY SizesAreBounded
<1>3. files \in [F2 -> 0..MaxFile] /\ \A s \in F2 : files[s] = Sizes(F)[s]
    BY <1>2 DEF Sizes
<1>4. /\ workers \in [W2 -> 0..MaxFile]
      /\ \A c \in W2 : workers[c] = [d \in W |-> request[d].size][c]
    BY <1>2
<1> HIDE DEF files, workers
<1>5. Sum(files) \in Nat /\ Sum(files) <= Sum(Sizes(F))
    BY <1>1, <1>2, <1>3, SumOfPart, LimitsAssumption
<1>6. Sum(workers) \in Nat /\ Sum(workers) <= Promised(W)
    BY <1>1, <1>2, <1>4, SumOfPart, LimitsAssumption DEF Promised
<1>7. Sum(Sizes(F2))' = Sum(files) /\ Promised(W2)' = Sum(workers)
    BY DEF Sizes, Promised, Sum, files, workers
<1>8. QED
    BY <1>1, <1>5, <1>6, <1>7, ExcessIsNat

LEMMA QuotaMeasured ==
    ASSUME IInv, FilesAreFinite, NEW limit \in Nat,
           NEW F \in SUBSET Filled, NEW W \in SUBSET Measured, NEW c \in Client, c \notin W,
           request[c].size \in 0..MaxFile, Fits(Sum(Sizes(F)), request[c].size, limit),
           UNCHANGED file, \A d \in W \cup {c} : request'[d].size = request[d].size
    PROVE  Sum(Sizes(F))' + Promised(W \cup {c})' <= limit + Excess
<1> DEFINE before == [d \in W |-> request[d].size]
           after == [d \in W \cup {c} |-> request'[d].size]
           files == [s \in F |-> file'[s].size]
<1>1. IsFiniteSet(W) /\ Sum(Sizes(F)) \in Nat /\ Promised(W) \in Nat
    BY SumsAreNat
<1>2. before \in [W -> 0..MaxFile] /\ after \in [W \cup {c} -> 0..MaxFile]
    BY SizesAreBounded
<1>3. (\A d \in W : after[d] = before[d]) /\ after[c] = request[c].size
    OBVIOUS
<1>4. Sum(before) = Promised(W)
    BY DEF Promised
<1>5. Sum(Sizes(F))' = Sum(Sizes(F)) /\ Promised(W \cup {c})' = Sum(after)
    <2>1. Sizes(F) = files
        BY DEF Sizes
    <2>2. Sum(Sizes(F))' = Sum(files) /\ Promised(W \cup {c})' = Sum(after)
        BY DEF Sizes, Promised, Sum
    <2>3. QED
        BY <2>1, <2>2
<1> HIDE DEF before, after
<1>6. Sum(after) = Promised(W) + request[c].size
    <2>1. IsFiniteSet(Bytes(before))
        BY <1>1, <1>2, SumIsFinite, LimitsAssumption
    <2>2. Sum(after) = Sum(before) + after[c]
        BY <1>2, <1>3, <2>1, SumOfOneMore, LimitsAssumption
    <2>3. QED
        BY <1>3, <1>4, <2>2
<1>7. Promised(W) <= Excess
    BY OthersPromiseLittle
<1>8. QED
    BY <1>1, <1>5, <1>6, <1>7, ExcessIsNat DEF Fits

LEMMA QuotaStored ==
    ASSUME IInv, FilesAreFinite, NEW limit \in Nat,
           NEW F \in SUBSET Filled, NEW W \in SUBSET Measured,
           Sum(Sizes(F)) + Promised(W) <= limit + Excess,
           NEW c \in W, NEW s \in Slot, file[s] = None,
           file' = [file EXCEPT ![s] = Stored(c)], request' = [request EXCEPT ![c] = None]
    PROVE  Sum(Sizes(F \cup {s}))' + Promised(W \ {c})' <= limit + Excess
<1> DEFINE files == [x \in F \cup {s} |-> file'[x].size]
           workers == [d \in W |-> request[d].size]
           others == [d \in W \ {c} |-> request'[d].size]
<1>1. /\ IsFiniteSet(F) /\ IsFiniteSet(W) /\ IsFiniteSet(W \ {c})
      /\ Sum(Sizes(F)) \in Nat /\ Promised(W) \in Nat
    BY SumsAreNat, FS_Difference
<1>2. Sizes(F) \in [F -> 0..MaxFile] /\ workers \in [W -> 0..MaxFile]
    BY SizesAreBounded
<1>3. s \notin F /\ F \subseteq Slot /\ W \subseteq Client
    BY DEF Filled, Measured
<1>4. /\ files \in [F \cup {s} -> 0..MaxFile]
      /\ \A x \in F : files[x] = Sizes(F)[x]
      /\ files[s] = workers[c]
    <2>1. file'[s].size = request[c].size /\ \A x \in F : file'[x] = file[x]
        BY <1>3 DEF IInv, TypeOK, Stored
    <2>2. files[s] = workers[c] /\ \A x \in F : files[x] = Sizes(F)[x]
        BY <2>1 DEF Sizes
    <2>3. QED
        BY <1>2, <2>2
<1>5. /\ others \in [W \ {c} -> 0..MaxFile]
      /\ \A d \in W \ {c} : others[d] = workers[d]
    <2>1. \A d \in W \ {c} : request'[d] = request[d]
        BY <1>3 DEF IInv, TypeOK
    <2>2. QED
        BY <1>2, <2>1
<1>6. Promised(W) = Sum(workers)
    BY DEF Promised
<1>7. Sum(Sizes(F \cup {s}))' = Sum(files) /\ Promised(W \ {c})' = Sum(others)
    BY DEF Sizes, Promised, Sum
<1> HIDE DEF files, workers, others
<1>8. Sum(files) = Sum(Sizes(F)) + workers[c]
    <2>1. IsFiniteSet(Bytes(Sizes(F)))
        BY <1>1, <1>2, SumIsFinite, LimitsAssumption
    <2>2. Sum(files) = Sum(Sizes(F)) + files[s]
        BY <1>2, <1>3, <1>4, <2>1, SumOfOneMore, LimitsAssumption
    <2>3. QED
        BY <1>4, <2>2
<1>9. Sum(others) \in Nat /\ Sum(workers) = Sum(others) + workers[c]
    <2>1. IsFiniteSet(Bytes(others)) /\ Sum(others) \in Nat
        BY <1>1, <1>5, SumIsFinite, LimitsAssumption
    <2>2. Sum(workers) = Sum(others) + workers[c]
        BY <1>2, <1>5, <2>1, SumOfOneMore, LimitsAssumption
    <2>3. QED
        BY <2>1, <2>2
<1>10. workers[c] \in Nat
    BY <1>2
<1>11. QED
    BY <1>1, <1>6, <1>7, <1>8, <1>9, <1>10, ExcessIsNat

LEMMA QuotaInvInit == Init => QuotaInv
<1> SUFFICES ASSUME Init PROVE QuotaInv
    OBVIOUS
<1>1. IInv
    BY IInvInit
<1>2. Filled = {} /\ Kept = {} /\ Measured = {}
    BY DEF Init, Filled, Kept, Exists, Measured, Busy
<1>3. FilesAreFinite
    BY <1>2, FS_EmptySet DEF FilesAreFinite
<1>4. ASSUME NEW f, DOMAIN f = {} PROVE Sum(f) = 0
    <2>1. Bytes(f) = {}
        BY <1>4 DEF Bytes
    <2>2. QED
        BY <2>1, FS_EmptySet DEF Sum, Bytes
<1>5. /\ TotalBytes = 0 /\ Promised(Measured) = 0
      /\ \A p \in Project : ProjectBytes(p) = 0 /\ Promised(Cleared(p)) = 0
    <2>1. TotalBytes = 0
        BY <1>2, <1>4 DEF TotalBytes, Sizes, Kept
    <2>2. \A p \in Project : ProjectFiles(p) = {} /\ Cleared(p) = {}
        BY <1>2 DEF ProjectFiles, Kept, Cleared
    <2>3. \A p \in Project : ProjectBytes(p) = 0
        BY <1>4, <2>2 DEF ProjectBytes, Sizes
    <2>4. QED
        BY <1>2, <1>4, <2>1, <2>2, <2>3 DEF Promised
<1>6. TotalInv /\ ProjectInv
    BY <1>5, ExcessIsNat, LimitsAssumption DEF TotalInv, ProjectInv
<1>7. QED
    BY <1>3, <1>6 DEF QuotaInv

(* A step that stores nothing leaves at most the files that were kept.     *)
LEMMA KeptShrinks ==
    ASSUME IInv, [Next]_vars, \A c \in Client : ~Store(c)
    PROVE  /\ Filled' = Filled
           /\ \A s \in Slot : Exists(s)' => /\ Exists(s)
                                            /\ file'[s].size = file[s].size
                                            /\ file'[s].project = file[s].project
<1>1. CASE UNCHANGED file
    BY <1>1 DEF Filled, Exists
<1>2. CASE \E c \in Client : SaveDeletion(c)
    <2>1. PICK c \in Client : SaveDeletion(c)
        BY <1>2
    <2> DEFINE t == request[c].slot
    <2>2. t \in Slot /\ file[t] \in FileRow /\ request[c].actor \in User
        <3>1. request[c] \in Removal /\ Busy(c, "delete")
            BY <2>1, RequestFields DEF SaveDeletion, At, IInv, Busy
        <3>2. file[t] # None
            BY <3>1 DEF IInv, DeletionsFindTheirRow
        <3>3. QED
            BY <3>1, <3>2 DEF Removal, IInv, TypeOK
    <2>3. file' = [file EXCEPT ![t] = [file[t] EXCEPT !.deletedBy = request[c].actor]]
        BY <2>1 DEF SaveDeletion
    <2>4. /\ [file[t] EXCEPT !.deletedBy = request[c].actor] \in FileRow
          /\ [file[t] EXCEPT !.deletedBy = request[c].actor].deletedBy # None
        BY <2>1, <2>2, NoneAssumption DEF FileRow, Removal, SaveDeletion
    <2>5. file'[t].deletedBy # None /\ file'[t] # None
        BY <2>2, <2>3, <2>4, NoneAssumption DEF IInv, TypeOK
    <2>6. \A s \in Slot \ {t} : file'[s] = file[s]
        BY <2>3 DEF IInv, TypeOK
    <2> HIDE DEF t
    <2>7. QED
        BY <2>2, <2>5, <2>6, NoneAssumption DEF Filled, Exists
<1>3. QED
    BY <1>1, <1>2 DEF Next, vars, ProjectChanges, ReceiveUpload, ReceiveDelete, Serve,
       AuthoriseUpload, MeasureTotal, MeasureProject, AuthoriseDelete, Continue

(* A worker that has measured had measured before, or has done so just now. *)
LEMMA HowWorkersMeasure ==
    ASSUME IInv, [Next]_vars, NEW c \in Measured'
    PROVE  \/ /\ c \in Measured
              /\ request'[c].size = request[c].size
              /\ request'[c].project = request[c].project
              /\ \/ request'[c].step = request[c].step
                 \/ MeasureProject(c)
           \/ MeasureTotal(c)
<1>0. c \in Client /\ Busy(c, "upload")' /\ request'[c].step \in {"fits_total", "fits_project"}
    BY DEF Measured
<1>1. CASE request'[c] = request[c]
    BY <1>0, <1>1 DEF Measured, Busy
<1>2. ASSUME NEW d \in Client, NEW q, q = None \/ q.step = "seen",
             request' = [request EXCEPT ![d] = q]
      PROVE  request'[c] = request[c]
    BY <1>0, <1>2 DEF IInv, TypeOK, Busy
<1>3. ASSUME NEW d \in Client, NEW allowed, NEW step, Continue(d, allowed, step),
             request[d] \in Upload \cup Removal
      PROVE  \/ request'[c] = request[c]
             \/ c = d /\ allowed /\ request'[c] = [request[c] EXCEPT !.step = step]
    BY <1>0, <1>3 DEF Continue, IInv, TypeOK, Busy
<1>4. ASSUME NEW d \in Client, Serve(d)
      PROVE  \/ request'[c] = request[c]
             \/ MeasureTotal(c)
             \/ MeasureProject(c) /\ request'[c] = [request[c] EXCEPT !.step = "fits_project"]
    <2>1. request[d] \in Upload \cup Removal
        <3>1. request[d] # None
            BY <1>4 DEF Serve, AuthoriseUpload, MeasureTotal, MeasureProject,
               Store, AuthoriseDelete, SaveDeletion, At
        <3>2. QED
            BY <3>1 DEF IInv, TypeOK
    <2>0. [request[d] EXCEPT !.step = "authorised"].step = "authorised"
        BY <2>1 DEF Upload, Removal
    <2>2. CASE AuthoriseUpload(d)
        BY <1>0, <1>3, <2>1, <2>2, <2>0 DEF AuthoriseUpload
    <2>3. CASE AuthoriseDelete(d)
        BY <1>0, <1>3, <2>1, <2>3, <2>0 DEF AuthoriseDelete
    <2>4. CASE MeasureTotal(d)
        BY <1>3, <2>1, <2>4 DEF MeasureTotal
    <2>5. CASE MeasureProject(d)
        BY <1>3, <2>1, <2>5 DEF MeasureProject
    <2>6. CASE Store(d) \/ SaveDeletion(d)
        BY <1>2, <2>6 DEF Store, SaveDeletion
    <2>7. QED
        BY <1>4, <2>2, <2>3, <2>4, <2>5, <2>6 DEF Serve
<1>5. ASSUME MeasureProject(c), request'[c] = [request[c] EXCEPT !.step = "fits_project"]
      PROVE  /\ c \in Measured
             /\ request'[c].size = request[c].size
             /\ request'[c].project = request[c].project
    <2>1. request[c] \in Upload /\ request[c].step = "fits_total" /\ Busy(c, "upload")
        BY <1>0, <1>5, RequestFields DEF MeasureProject, At, IInv, Busy
    <2>2. QED
        BY <1>0, <1>5, <2>1 DEF Measured, Upload
<1>6. CASE \E d \in Client : ReceiveUpload(d) \/ ReceiveDelete(d)
    <2>1. PICK d \in Client : ReceiveUpload(d) \/ ReceiveDelete(d)
        BY <1>6
    <2>2. PICK q : q.step = "seen" /\ request' = [request EXCEPT ![d] = q]
        <3>1. CASE ReceiveUpload(d)
            BY <3>1 DEF ReceiveUpload
        <3>2. CASE ReceiveDelete(d)
            BY <3>2 DEF ReceiveDelete
        <3>3. QED
            BY <2>1, <3>1, <3>2
    <2>3. QED
        BY <1>1, <1>2, <2>2
<1>7. QED
    BY <1>1, <1>4, <1>5, <1>6 DEF Next, vars, ProjectChanges

(* What a store does to the files and workers that are counted.            *)
LEMMA StoreMovesBytes ==
    ASSUME IInv, NEW c \in Client, Store(c)
    PROVE  /\ c \in Measured /\ request[c].step = "fits_project"
           /\ request' = [request EXCEPT ![c] = None]
           /\ Measured' = Measured \ {c}
           /\ \A p \in Project : Cleared(p)' = Cleared(p) \ {c}
           /\ \E s \in Slot :
                /\ file[s] = None
                /\ file' = [file EXCEPT ![s] = Stored(c)]
                /\ Filled' = Filled \cup {s}
                /\ Kept' = Kept \cup {s}
                /\ \A p \in Project :
                    ProjectFiles(p)' = IF request[c].project = p THEN ProjectFiles(p) \cup {s}
                                                                 ELSE ProjectFiles(p)
<1>1. /\ c \in Measured /\ request[c].step = "fits_project"
      /\ request' = [request EXCEPT ![c] = None]
    BY DEF Store, At, Measured, Busy
<1>2. Measured' = Measured \ {c}
    BY <1>1 DEF Measured, Busy, IInv, TypeOK
<1>3. ASSUME NEW p \in Project PROVE Cleared(p)' = Cleared(p) \ {c}
    <2>1. \A d \in Measured \ {c} : request'[d] = request[d]
        BY <1>1 DEF Measured, IInv, TypeOK
    <2>2. QED
        BY <1>2, <2>1 DEF Cleared
<1>4. PICK s \in Slot : file[s] = None /\ file' = [file EXCEPT ![s] = Stored(c)]
    BY DEF Store, Stored
<1>5. /\ Stored(c) # None /\ Stored(c).deletedBy = None
      /\ Stored(c).project = request[c].project
    <2>1. Stored(c) \in FileRow
        <3>1. request[c] \in Upload /\ request[c].size <= MaxFile
            BY RequestFields DEF Store, At, IInv, AuthorisedUploads, Busy
        <3>2. QED
            BY <3>1, UploadFields, LimitsAssumption DEF Stored, FileRow
    <2>2. QED
        BY <2>1, NoneAssumption DEF Stored
<1>6. file'[s] = Stored(c) /\ \A x \in Slot \ {s} : file'[x] = file[x]
    BY <1>4 DEF IInv, TypeOK
<1>7. /\ Filled' = Filled \cup {s}
      /\ Kept' = Kept \cup {s}
    BY <1>4, <1>5, <1>6 DEF Filled, Kept, Exists
<1>8. ASSUME NEW p \in Project
      PROVE  ProjectFiles(p)' = IF request[c].project = p THEN ProjectFiles(p) \cup {s}
                                                          ELSE ProjectFiles(p)
    BY <1>4, <1>5, <1>6 DEF ProjectFiles, Exists
<1>9. QED
    BY <1>1, <1>2, <1>3, <1>4, <1>7, <1>8

LEMMA TotalInvNext == ASSUME IInv, QuotaInv, [Next]_vars PROVE TotalInv'
<1> USE LimitsAssumption DEF QuotaInv
<1>1. Kept \in SUBSET Filled /\ Measured \in SUBSET Measured
    BY DEF Kept, Filled, Exists
<1>2. Sum(Sizes(Kept)) + Promised(Measured) <= MaxTotal + Excess
    BY DEF TotalInv, TotalBytes, Kept
<1>3. PICK F, W : F = Kept' /\ W = Measured'
    OBVIOUS
<1>4. SUFFICES Sum(Sizes(F))' + Promised(W)' <= MaxTotal + Excess
    BY <1>3 DEF TotalInv, TotalBytes, Kept, Sizes, Promised, Excess
<1>5. CASE \E c \in Client : Store(c)
    <2>1. PICK c \in Client : Store(c)
        BY <1>5
    <2>2. PICK s \in Slot : /\ file[s] = None
                            /\ file' = [file EXCEPT ![s] = Stored(c)]
                            /\ Kept' = Kept \cup {s}
        BY <2>1, StoreMovesBytes
    <2>3. F = Kept \cup {s} /\ W = Measured \ {c} /\ c \in Measured
          /\ request' = [request EXCEPT ![c] = None]
        BY <1>3, <2>1, <2>2, StoreMovesBytes
    <2>4. QED
        BY <1>1, <1>2, <2>2, <2>3, QuotaStored
<1>6. CASE \E c \in Measured' : MeasureTotal(c)
    <2>1. PICK c \in Measured' : MeasureTotal(c)
        BY <1>6
    <2>2. c \in Client /\ c \notin Measured /\ request[c] \in Upload /\ Busy(c, "upload")
          /\ request[c].step = "authorised"
        BY <2>1, RequestFields DEF MeasureTotal, At, Measured, Busy, IInv
    <2>3. Fits(TotalBytes, request[c].size, MaxTotal)
        BY <2>1, <2>2 DEF MeasureTotal, Continue, Measured, Busy, IInv, TypeOK
    <2>4. request' = [request EXCEPT ![c] = [request[c] EXCEPT !.step = "fits_total"]]
          /\ UNCHANGED file
        BY <2>1, <2>3 DEF MeasureTotal, Continue
    <2>5. request'[c].size = request[c].size /\ \A d \in Client \ {c} : request'[d] = request[d]
        BY <2>2, <2>4 DEF Upload, IInv, TypeOK
    <2>6. F = Kept /\ W = Measured \cup {c}
        BY <1>3, <2>1, <2>4, <2>5 DEF Kept, Exists, Measured, Busy
    <2>7. request[c].size \in 0..MaxFile
        BY <2>2, UploadFields DEF IInv, AuthorisedUploads
    <2>8. \A d \in Measured \cup {c} : request'[d].size = request[d].size
        BY <2>5 DEF Measured
    <2>9. Fits(Sum(Sizes(Kept)), request[c].size, MaxTotal)
        BY <2>3 DEF TotalBytes, Kept
    <2>10. QED
        BY <1>1, <2>2, <2>4, <2>6, <2>7, <2>8, <2>9, QuotaMeasured
<1>7. CASE (\A c \in Client : ~Store(c)) /\ \A c \in Measured' : ~MeasureTotal(c)
    <2>1. F \in SUBSET Kept /\ \A s \in F : file'[s].size = file[s].size
        BY <1>3, <1>7, KeptShrinks DEF Kept
    <2>2. W \in SUBSET Measured /\ \A c \in W : request'[c].size = request[c].size
        BY <1>3, <1>7, HowWorkersMeasure
    <2>3. QED
        BY <1>1, <1>2, <2>1, <2>2, QuotaShrinks
<1>8. QED
    BY <1>5, <1>6, <1>7

LEMMA ProjectInvNext == ASSUME IInv, QuotaInv, [Next]_vars PROVE ProjectInv'
<1> USE LimitsAssumption DEF QuotaInv
<1> SUFFICES ASSUME NEW p \in Project
             PROVE  (ProjectBytes(p) + Promised(Cleared(p)) <= MaxProject + Excess)'
    BY DEF ProjectInv
<1>1. ProjectFiles(p) \in SUBSET Filled /\ Cleared(p) \in SUBSET Measured
    BY DEF ProjectFiles, Filled, Exists, Cleared
<1>2. Sum(Sizes(ProjectFiles(p))) + Promised(Cleared(p)) <= MaxProject + Excess
    BY DEF ProjectInv, ProjectBytes
<1>3. PICK F, W : F = ProjectFiles(p)' /\ W = Cleared(p)'
    OBVIOUS
<1>4. SUFFICES Sum(Sizes(F))' + Promised(W)' <= MaxProject + Excess
    BY <1>3 DEF ProjectBytes, Sizes, Promised, Excess
<1>5. CASE \E c \in Client : Store(c)
    <2>1. PICK c \in Client : Store(c)
        BY <1>5
    <2>2. PICK s \in Slot :
            /\ file[s] = None
            /\ file' = [file EXCEPT ![s] = Stored(c)]
            /\ ProjectFiles(p)' = IF request[c].project = p THEN ProjectFiles(p) \cup {s}
                                                            ELSE ProjectFiles(p)
        BY <2>1, StoreMovesBytes
    <2>3. /\ W = Cleared(p) \ {c}
          /\ c \in Measured /\ request[c].step = "fits_project"
          /\ request' = [request EXCEPT ![c] = None]
        BY <1>3, <2>1, StoreMovesBytes
    <2>4. CASE request[c].project = p
        <3>1. c \in Cleared(p) /\ F = ProjectFiles(p) \cup {s}
            BY <1>3, <2>2, <2>3, <2>4 DEF Cleared
        <3>2. QED
            BY <1>1, <1>2, <2>2, <2>3, <3>1, QuotaStored
    <2>5. CASE request[c].project # p
        <3>1. F \in SUBSET ProjectFiles(p) /\ \A x \in F : file'[x].size = file[x].size
            BY <1>3, <2>2, <2>5 DEF ProjectFiles, Exists, IInv, TypeOK
        <3>2. W \in SUBSET Cleared(p) /\ \A d \in W : request'[d].size = request[d].size
            BY <2>3 DEF Cleared, Measured, IInv, TypeOK
        <3>3. QED
            BY <1>1, <1>2, <3>1, <3>2, QuotaShrinks
    <2>6. QED
        BY <2>4, <2>5
<1>6. CASE \E c \in Cleared(p)' : MeasureProject(c)
    <2>1. PICK c \in Cleared(p)' : MeasureProject(c)
        BY <1>6
    <2>2. c \in Client /\ c \notin Cleared(p) /\ request[c] \in Upload /\ Busy(c, "upload")
          /\ request[c].step = "fits_total"
        BY <2>1, RequestFields DEF MeasureProject, At, Cleared, Measured, Busy, IInv
    <2>3. Fits(ProjectBytes(request[c].project), request[c].size, MaxProject)
        BY <2>1, <2>2 DEF MeasureProject, Continue, Cleared, Measured, Busy, IInv, TypeOK
    <2>4. request' = [request EXCEPT ![c] = [request[c] EXCEPT !.step = "fits_project"]]
          /\ UNCHANGED file
        BY <2>1, <2>3 DEF MeasureProject, Continue
    <2>5. /\ request'[c].size = request[c].size /\ request'[c].project = request[c].project
          /\ \A d \in Client \ {c} : request'[d] = request[d]
        BY <2>2, <2>4 DEF Upload, IInv, TypeOK
    <2>6. request[c].project = p
        BY <2>1, <2>5 DEF Cleared
    <2>7. F = ProjectFiles(p) /\ W = Cleared(p) \cup {c}
        BY <1>3, <2>1, <2>4, <2>5 DEF ProjectFiles, Exists, Cleared, Measured, Busy
    <2>8. request[c].size \in 0..MaxFile
        BY <2>2, UploadFields DEF IInv, AuthorisedUploads
    <2>9. \A d \in Cleared(p) \cup {c} : request'[d].size = request[d].size
        BY <2>5 DEF Cleared, Measured
    <2>10. Fits(Sum(Sizes(ProjectFiles(p))), request[c].size, MaxProject)
        BY <2>3, <2>6 DEF ProjectBytes
    <2>11. QED
        BY <1>1, <2>2, <2>4, <2>7, <2>8, <2>9, <2>10, QuotaMeasured
<1>7. CASE (\A c \in Client : ~Store(c)) /\ \A c \in Cleared(p)' : ~MeasureProject(c)
    <2>1. F \in SUBSET ProjectFiles(p) /\ \A s \in F : file'[s].size = file[s].size
        BY <1>3, <1>7, KeptShrinks DEF ProjectFiles
    <2>2. W \in SUBSET Cleared(p) /\ \A c \in W : request'[c].size = request[c].size
        <3> SUFFICES ASSUME NEW c \in W
                     PROVE  c \in Cleared(p) /\ request'[c].size = request[c].size
            OBVIOUS
        <3>1. /\ c \in Measured' /\ c \in Cleared(p)'
              /\ request'[c].step = "fits_project" /\ request'[c].project = p
            BY <1>3 DEF Cleared
        <3>2. ~MeasureTotal(c)
            <4> SUFFICES ASSUME MeasureTotal(c) PROVE FALSE
                OBVIOUS
            <4>1. request[c] \in Upload
                BY <3>1, RequestFields DEF MeasureTotal, At, Measured, IInv
            <4>2. request'[c] = [request[c] EXCEPT !.step = "fits_total"]
                BY <3>1 DEF MeasureTotal, Continue, IInv, TypeOK, Measured, Busy
            <4>3. QED
                BY <3>1, <4>1, <4>2 DEF Upload
        <3>3. QED
            BY <1>7, <3>1, <3>2, HowWorkersMeasure DEF Cleared
    <2>3. QED
        BY <1>1, <1>2, <2>1, <2>2, QuotaShrinks
<1>8. QED
    BY <1>5, <1>6, <1>7

LEMMA QuotaInvNext == IInv /\ QuotaInv /\ [Next]_vars => QuotaInv'
<1> SUFFICES ASSUME IInv, QuotaInv, [Next]_vars PROVE QuotaInv'
    OBVIOUS
<1>1. FilesAreFinite'
    <2>1. CASE \A c \in Client : ~Store(c)
        BY <2>1, KeptShrinks DEF QuotaInv, FilesAreFinite
    <2>2. CASE \E c \in Client : Store(c)
        <3>1. PICK s \in Slot : Filled' = Filled \cup {s}
            BY <2>2, StoreMovesBytes
        <3>2. IsFiniteSet(Filled \cup {s})
            BY FS_AddElement DEF QuotaInv, FilesAreFinite
        <3>3. QED
            BY <3>1, <3>2 DEF FilesAreFinite
    <2>3. QED
        BY <2>1, <2>2
<1>2. QED
    BY <1>1, TotalInvNext, ProjectInvNext DEF QuotaInv

LEMMA QuotaInvHolds == Spec => [](IInv /\ QuotaInv)
<1>1. IInv /\ QuotaInv /\ [Next]_vars => (IInv /\ QuotaInv)'
    BY IInvNext, QuotaInvNext
<1>2. QED
    BY <1>1, IInvInit, QuotaInvInit, PTL DEF Spec

LEMMA QuotaInvBounds == IInv /\ QuotaInv => ExcessIsBounded
<1> SUFFICES ASSUME IInv, QuotaInv PROVE ExcessIsBounded
    OBVIOUS
<1>1. /\ Kept \in SUBSET Filled
      /\ \A p \in Project : ProjectFiles(p) \in SUBSET Filled /\ Cleared(p) \in SUBSET Measured
    BY DEF Kept, Filled, Exists, ProjectFiles, Cleared
<1>2. TotalBytes \in Nat /\ Promised(Measured) \in Nat
    BY <1>1, SumsAreNat DEF QuotaInv, TotalBytes, Kept
<1>3. \A p \in Project : ProjectBytes(p) \in Nat /\ Promised(Cleared(p)) \in Nat
    BY <1>1, SumsAreNat DEF QuotaInv, ProjectBytes
<1>4. QED
    BY <1>2, <1>3, ExcessIsNat, LimitsAssumption
    DEF QuotaInv, TotalInv, ProjectInv, ExcessIsBounded
-----------------------------------------------------------------------------
(* The rows and requests keep their types: no file is larger than allowed, *)
(* whatever was asked for.                                                 *)
THEOREM TypeCorrect == Spec => []TypeOK
<1>1. IInv => TypeOK
    BY DEF IInv
<1>2. QED
    BY <1>1, IInvInit, IInvNext, PTL DEF Spec

(* A closed project gets a file on a task only from an upload that had     *)
(* found it open.                                                          *)
THEOREM LateUploadsHadSeenItOpen == Spec => LateUploadsWereUnderWay
<1> DEFINE UnderWay ==
        \A s \in Slot :
            (file[s] = None /\ file'[s] # None /\ file'[s].on = "task") =>
                \/ project[file'[s].project].open
                \/ \E c \in Client :
                    /\ request[c] # None
                    /\ request'[c] = None
                    /\ request[c].seen.open
<1>1. IInv /\ [Next]_vars => [UnderWay]_vars
    <2> SUFFICES ASSUME IInv, Next, NEW s \in Slot, file[s] = None, file'[s] # None,
                        file'[s].on = "task"
                 PROVE  \E c \in Client : /\ request[c] # None
                                          /\ request'[c] = None
                                          /\ request[c].seen.open
        OBVIOUS
    <2>1. ASSUME NEW c \in Client, SaveDeletion(c) PROVE FALSE
        <3>1. file[request[c].slot] # None
            BY <2>1 DEF SaveDeletion, At, IInv, DeletionsFindTheirRow, Busy
        <3>2. file'[s] = file[s]
            BY <2>1, <3>1 DEF SaveDeletion, IInv, TypeOK
        <3>3. QED
            BY <3>2
    <2>2. PICK c \in Client : Store(c)
        BY <2>1 DEF Next, ProjectChanges, ReceiveUpload, ReceiveDelete, Serve,
                    AuthoriseUpload, MeasureTotal, MeasureProject, AuthoriseDelete, Continue
    <2>3. file'[s] = Stored(c)
        BY <2>2 DEF Store, Stored, IInv, TypeOK
    <2>4. request[c].on = "task"
        BY <2>3 DEF Stored
    <2>5. request[c] # None /\ request[c].seen.open
        BY <2>2, <2>4 DEF Store, At, IInv, AuthorisedUploads, Busy
    <2>6. request'[c] = None
        BY <2>2 DEF Store, IInv, TypeOK
    <2>7. QED
        BY <2>5, <2>6
<1>2. QED
    BY <1>1, IInvInit, IInvNext, PTL DEF Spec, LateUploadsWereUnderWay

(* However many uploads overlap, and whatever is deleted meanwhile, what   *)
(* is stored exceeds a quota by at most a file for every worker but one.   *)
THEOREM QuotaExcessIsBounded == Spec => []ExcessIsBounded
BY QuotaInvHolds, QuotaInvBounds, PTL

(* With a single worker, that is, when uploads do not overlap, the quotas  *)
(* are kept exactly: what exceeds them is due to overlaps only.            *)
QuotasHold ==
    /\ TotalBytes <= MaxTotal
    /\ \A p \in Project : ProjectBytes(p) <= MaxProject

THEOREM QuotasHoldWithoutOverlap ==
    ASSUME Cardinality(Client) = 1
    PROVE  Spec => []QuotasHold
<1>1. Excess = 0
    BY LimitsAssumption DEF Excess
<1>2. ExcessIsBounded => QuotasHold
    BY <1>1, LimitsAssumption DEF ExcessIsBounded, QuotasHold
<1>3. QED
    BY <1>2, QuotaExcessIsBounded, PTL
=============================================================================
