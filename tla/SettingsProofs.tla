--------------------------- MODULE SettingsProofs ---------------------------
(* What the history of a setting says of its row, for any number of          *)
(* administrators, keys and groups.                                          *)
EXTENDS Settings, SequenceTheorems, TLAPS

AllValues == Values \cup {"env"}
Row == [version : Nat, value : AllValues]
Entry == [version : Nat, before : AllValues, after : AllValues]

SettingsTypes ==
    /\ row \in [Keys -> Row]
    /\ history \in [Keys -> Seq(Entry)]

(* HistoryExplainsRow, for one key.                                          *)
Explains(h, r) ==
    /\ \A i \in 1..(Len(h) - 1) :
          h[i+1].version = h[i].version + 1 /\ h[i+1].before = h[i].after
    /\ h # <<>> => r = [version |-> h[Len(h)].version, value |-> h[Len(h)].after]

(* A row that was read is the row that is there, unless the version tells.   *)
ReadOf(s, r) == s.version <= r.version /\ (s.version = r.version => s = r)

(* A request that is going to write knows rows that were there.              *)
Writing(req) ==
    \E G \in SUBSET Keys : \E change \in [G -> Values], seen \in [G -> Row] :
        /\ req = [at |-> "write", change |-> change, seen |-> seen]
        /\ \A k \in G : ReadOf(seen[k], row[k])
Publishing(req) == \E K \in SUBSET Keys : req = [at |-> "publish", keys |-> K]

RequestsAreReads ==
    /\ admin = [a \in Admins |-> admin[a]]
    /\ \A a \in Admins : admin[a] = NoAdmin \/ Writing(admin[a]) \/ Publishing(admin[a])

SettingsInv ==
    /\ SettingsTypes
    /\ \A k \in Keys : Explains(history[k], row[k]) /\ (row[k].version = 0 => history[k] = <<>>)
    /\ RequestsAreReads

-----------------------------------------------------------------------------
(* One entry more explains one version more.                                 *)
LEMMA EntryExplains ==
    ASSUME NEW h \in Seq(Entry), NEW r \in Row, Explains(h, r), NEW v \in Values
    PROVE  LET e == [version |-> r.version + 1, before |-> r.value, after |-> v]
           IN  /\ Append(h, e) \in Seq(Entry)
               /\ [version |-> r.version + 1, value |-> v] \in Row
               /\ Explains(Append(h, e), [version |-> r.version + 1, value |-> v])
<1> DEFINE e == [version |-> r.version + 1, before |-> r.value, after |-> v]
           g == Append(h, e)
<1>1. r.version \in Nat /\ r.value \in AllValues /\ v \in AllValues
    BY DEF Row, AllValues
<1>2. e \in Entry /\ [version |-> r.version + 1, value |-> v] \in Row
    BY <1>1 DEF Entry, Row
<1>3. g \in Seq(Entry) /\ Len(g) = Len(h) + 1 /\ g[Len(h) + 1] = e
    BY <1>2
<1>4. Len(h) \in Nat
    OBVIOUS
<1>5. \A i \in 1..Len(h) : g[i] = h[i]
    BY <1>2
<1>6. ASSUME NEW i \in 1..Len(h)
      PROVE  g[i+1].version = g[i].version + 1 /\ g[i+1].before = g[i].after
    <2>1. CASE i = Len(h)
        <3>1. h # <<>> /\ g[i] = h[Len(h)] /\ g[i+1] = e
            BY <1>3, <1>4, <1>5, <2>1
        <3>2. r.version = h[Len(h)].version /\ r.value = h[Len(h)].after
            BY <3>1 DEF Explains
        <3>3. QED
            BY <3>1, <3>2
    <2>2. CASE i # Len(h)
        <3>1. i \in 1..(Len(h) - 1) /\ i + 1 \in 1..Len(h)
            BY <1>4, <2>2
        <3>2. g[i] = h[i] /\ g[i+1] = h[i+1]
            BY <1>5, <3>1
        <3>3. QED
            BY <3>1, <3>2 DEF Explains
    <2>3. QED
        BY <2>1, <2>2
<1>7. g[Len(g)] = e
    BY <1>3
<1>8. Len(g) - 1 = Len(h)
    BY <1>3, <1>4
<1>9. Explains(g, [version |-> r.version + 1, value |-> v])
    BY <1>6, <1>7, <1>8 DEF Explains
<1>10. QED
    BY <1>2, <1>3, <1>9

(* What was read before a row got its next version is still a read of it.    *)
LEMMA ReadsStayReads ==
    ASSUME NEW s \in Row, NEW r \in Row, NEW v \in AllValues, ReadOf(s, r)
    PROVE  ReadOf(s, [version |-> r.version + 1, value |-> v])
<1>1. s.version \in Nat /\ r.version \in Nat /\ s.version <= r.version
    BY DEF Row, ReadOf
<1>2. s.version <= r.version + 1 /\ s.version # r.version + 1
    BY <1>1
<1>3. QED
    BY <1>2 DEF ReadOf

-----------------------------------------------------------------------------
LEMMA SettingsInitially == SettingsInit => SettingsInv
<1> SUFFICES ASSUME SettingsInit PROVE SettingsInv
    OBVIOUS
<1>1. SettingsTypes
    BY DEF SettingsInit, SettingsTypes, Row, AllValues
<1>2. \A k \in Keys : history[k] = <<>>
    BY DEF SettingsInit
<1>3. \A k \in Keys : Explains(history[k], row[k])
    BY <1>2 DEF Explains
<1>4. RequestsAreReads
    BY DEF SettingsInit, RequestsAreReads
<1>5. QED
    BY <1>1, <1>2, <1>3, <1>4 DEF SettingsInv

(* The tables do not change, and one request is replaced.                    *)
LEMMA RequestReplaced ==
    ASSUME SettingsInv, UNCHANGED tables, NEW a \in Admins, NEW req,
           admin' = [admin EXCEPT ![a] = req], req = NoAdmin \/ Writing(req) \/ Publishing(req)
    PROVE  SettingsInv'
<1>1. row' = row /\ history' = history
    BY DEF tables
<1>2. admin' = [b \in Admins |-> IF b = a THEN req ELSE admin[b]]
    BY DEF SettingsInv, RequestsAreReads
<1>3. ASSUME NEW b \in Admins PROVE admin'[b] = NoAdmin \/ Writing(admin[b])' \/ Publishing(admin[b])'
    <2>1. admin'[b] = NoAdmin \/ Writing(admin'[b]) \/ Publishing(admin'[b])
        BY <1>2 DEF SettingsInv, RequestsAreReads
    <2>2. Writing(admin'[b]) => Writing(admin[b])'
        BY <1>1 DEF Writing
    <2>3. Publishing(admin'[b]) => Publishing(admin[b])'
        BY DEF Publishing
    <2>4. QED
        BY <2>1, <2>2, <2>3
<1>4. RequestsAreReads'
    BY <1>2, <1>3 DEF RequestsAreReads, NoAdmin
<1>5. QED
    BY <1>1, <1>4 DEF SettingsInv, SettingsTypes

(* Nothing the invariant is about changes.                                   *)
LEMMA RequestsUnchanged ==
    ASSUME SettingsInv, UNCHANGED <<tables, admin>>
    PROVE  SettingsInv'
<1>1. row' = row /\ history' = history /\ admin' = admin
    BY DEF tables
<1>2. QED
    BY <1>1 DEF SettingsInv, SettingsTypes, RequestsAreReads, Writing, Publishing

(* The write of a request: its rows are those it read.                       *)
LEMMA WriteKeepsInv ==
    ASSUME SettingsInv, NEW a \in Admins, WriteRows(a)
    PROVE  SettingsInv'
<1>0. PICK G \in SUBSET Keys : \E change \in [G -> Values], seen \in [G -> Row] :
          /\ admin[a] = [at |-> "write", change |-> change, seen |-> seen]
          /\ \A k \in G : ReadOf(seen[k], row[k])
    BY DEF SettingsInv, RequestsAreReads, WriteRows, NoAdmin, Writing, Publishing
<1>1. PICK change \in [G -> Values], seen \in [G -> Row] :
          /\ admin[a] = [at |-> "write", change |-> change, seen |-> seen]
          /\ \A k \in G : ReadOf(seen[k], row[k])
    BY <1>0
<1>2. \A k \in G : seen[k] = row[k]
    BY <1>1 DEF WriteRows, Unchanged, ReadOf
<1>3. /\ row' = [k \in Keys |->
             IF k \in G THEN [version |-> row[k].version + 1, value |-> change[k]] ELSE row[k]]
      /\ history' = [k \in Keys |->
             IF k \in G THEN Append(history[k], [version |-> row[k].version + 1,
                                                 before |-> row[k].value, after |-> change[k]])
             ELSE history[k]]
    BY <1>1, <1>2 DEF WriteRows, Written
<1>4. ASSUME NEW k \in Keys
      PROVE  /\ row'[k] \in Row /\ history'[k] \in Seq(Entry)
             /\ Explains(history'[k], row'[k])
             /\ row'[k].version = 0 => history'[k] = <<>>
             /\ \A s \in Row : ReadOf(s, row[k]) => ReadOf(s, row'[k])
    <2>1. row[k] \in Row /\ history[k] \in Seq(Entry) /\ Explains(history[k], row[k])
          /\ (row[k].version = 0 => history[k] = <<>>)
        BY DEF SettingsInv, SettingsTypes
    <2>2. CASE k \in G
        <3>1. change[k] \in Values /\ change[k] \in AllValues
            BY <2>2 DEF AllValues
        <3>2. row'[k] = [version |-> row[k].version + 1, value |-> change[k]]
            BY <1>3, <2>2
        <3>3. row'[k] \in Row /\ history'[k] \in Seq(Entry) /\ Explains(history'[k], row'[k])
            BY <1>3, <2>1, <2>2, <3>1, <3>2, EntryExplains
        <3>4. row'[k].version # 0
            BY <2>1, <3>2 DEF Row
        <3>5. \A s \in Row : ReadOf(s, row[k]) => ReadOf(s, row'[k])
            BY <2>1, <3>1, <3>2, ReadsStayReads
        <3>6. QED
            BY <3>3, <3>4, <3>5
    <2>3. CASE k \notin G
        BY <1>3, <2>1, <2>3
    <2>4. QED
        BY <2>2, <2>3
<1>5. admin' = [b \in Admins |-> IF b = a THEN [at |-> "publish", keys |-> G] ELSE admin[b]]
    BY <1>1 DEF SettingsInv, RequestsAreReads, WriteRows
<1>6. SettingsTypes'
    BY <1>3, <1>4 DEF SettingsTypes
<1>7. ASSUME NEW b \in Admins PROVE admin'[b] = NoAdmin \/ Writing(admin[b])' \/ Publishing(admin[b])'
    <2>1. CASE b = a
        BY <1>5, <2>1 DEF Publishing
    <2>2. CASE b # a /\ Writing(admin[b])
        <3>1. PICK H \in SUBSET Keys : \E wanted \in [H -> Values], known \in [H -> Row] :
                  /\ admin[b] = [at |-> "write", change |-> wanted, seen |-> known]
                  /\ \A k \in H : ReadOf(known[k], row[k])
            BY <2>2 DEF Writing
        <3>2. PICK wanted \in [H -> Values], known \in [H -> Row] :
                  /\ admin[b] = [at |-> "write", change |-> wanted, seen |-> known]
                  /\ \A k \in H : ReadOf(known[k], row[k])
            BY <3>1
        <3>3. \A k \in H : ReadOf(known[k], row'[k])
            BY <1>4, <3>2
        <3>4. admin'[b] = [at |-> "write", change |-> wanted, seen |-> known]
            BY <1>5, <2>2, <3>2
        <3>5. Writing(admin[b])'
            BY <3>3, <3>4 DEF Writing
        <3>6. QED
            BY <3>5
    <2>3. CASE b # a /\ ~Writing(admin[b])
        BY <1>5, <2>3 DEF SettingsInv, RequestsAreReads, Publishing
    <2>4. QED
        BY <2>1, <2>2, <2>3
<1>8. RequestsAreReads'
    BY <1>5, <1>7 DEF RequestsAreReads, NoAdmin
<1>9. QED
    BY <1>4, <1>6, <1>8 DEF SettingsInv

(* The first version has no history, and is not read yet as such.            *)
LEMMA MigrationKeepsInv ==
    ASSUME SettingsInv, NEW k \in Keys, migrateFromEnv(k)
    PROVE  SettingsInv'
<1>1. row' = [row EXCEPT ![k].version = 1] /\ history' = history /\ admin' = admin /\ row[k].version = 0
    BY DEF migrateFromEnv
<1>2. row \in [Keys -> Row] /\ history[k] = <<>> /\ row[k].version + 1 = 1
    BY <1>1 DEF SettingsInv, SettingsTypes
<1>3. row[k].value \in AllValues /\ row[k] \in Row
    BY <1>2 DEF Row
<1>4. row'[k] = [version |-> row[k].version + 1, value |-> row[k].value] /\ row'[k] \in Row
    BY <1>1, <1>2, <1>3 DEF Row
<1>5. \A j \in Keys \ {k} : row'[j] = row[j]
    BY <1>1, <1>2
<1>6. SettingsTypes'
    BY <1>1, <1>2, <1>4, <1>5 DEF SettingsInv, SettingsTypes
<1>7. \A j \in Keys : Explains(history'[j], row'[j]) /\ (row'[j].version = 0 => history'[j] = <<>>)
    <2>1. Explains(history'[k], row'[k]) /\ history'[k] = <<>>
        BY <1>1, <1>2 DEF Explains
    <2>2. QED
        BY <1>1, <1>5, <2>1 DEF SettingsInv
<1>8. ASSUME NEW j \in Keys, NEW s \in Row, ReadOf(s, row[j]) PROVE ReadOf(s, row'[j])
    <2>1. CASE j = k
        BY <1>3, <1>4, <1>8, <2>1, ReadsStayReads
    <2>2. QED
        BY <1>5, <1>8, <2>1
<1>9. RequestsAreReads'
    <2>1. ASSUME NEW b \in Admins, Writing(admin[b]) PROVE Writing(admin[b])'
        BY <1>1, <1>8, <2>1 DEF Writing
    <2>2. ASSUME NEW b \in Admins, Publishing(admin[b]) PROVE Publishing(admin[b])'
        BY <1>1, <2>2 DEF Publishing
    <2>3. QED
        BY <1>1, <2>1, <2>2 DEF SettingsInv, RequestsAreReads
<1>10. QED
    BY <1>6, <1>7, <1>9 DEF SettingsInv

LEMMA SettingsInductive == SettingsInv /\ [SettingsNext]_settingsVars => SettingsInv'
<1> SUFFICES ASSUME SettingsInv, [SettingsNext]_settingsVars PROVE SettingsInv'
    OBVIOUS
<1>1. ASSUME NEW a \in Admins, ReadVersions(a) PROVE SettingsInv'
    <2>1. PICK G \in Groups : \E change \in [G -> Values] :
              admin' = [admin EXCEPT ![a] = [at |-> "write", change |-> change, seen |-> [k \in G |-> row[k]]]]
        BY <1>1 DEF ReadVersions
    <2>2. PICK change \in [G -> Values] :
              admin' = [admin EXCEPT ![a] = [at |-> "write", change |-> change, seen |-> [k \in G |-> row[k]]]]
        BY <2>1
    <2>3. G \in SUBSET Keys
        BY SettingsAssumption
    <2>4. [k \in G |-> row[k]] \in [G -> Row]
        BY <2>3 DEF SettingsInv, SettingsTypes
    <2>5. \A k \in G : ReadOf([j \in G |-> row[j]][k], row[k])
        BY <2>3 DEF ReadOf, SettingsInv, SettingsTypes, Row
    <2>6. Writing([at |-> "write", change |-> change, seen |-> [k \in G |-> row[k]]])
        BY <2>3, <2>4, <2>5 DEF Writing
    <2>7. QED
        BY <1>1, <2>2, <2>6, RequestReplaced DEF ReadVersions
<1>2. ASSUME NEW a \in Admins, WriteRows(a) PROVE SettingsInv'
    BY <1>2, WriteKeepsInv
<1>3. ASSUME NEW a \in Admins, VersionConflict(a) PROVE SettingsInv'
    BY <1>3, RequestReplaced DEF VersionConflict
<1>4. ASSUME NEW a \in Admins, Publish(a) PROVE SettingsInv'
    <2>1. PICK k \in admin[a].keys : admin' = [admin EXCEPT ![a] =
              IF @.keys = {k} THEN NoAdmin ELSE [at |-> "publish", keys |-> @.keys \ {k}]]
        BY <1>4 DEF Publish
    <2>2. PICK K \in SUBSET Keys : admin[a] = [at |-> "publish", keys |-> K]
        BY <1>4 DEF Publish, SettingsInv, RequestsAreReads, NoAdmin, Writing, Publishing
    <2>3. K \ {k} \in SUBSET Keys /\ admin[a].keys = K
        BY <2>2
    <2>4. Publishing([at |-> "publish", keys |-> K \ {k}])
        BY <2>3 DEF Publishing
    <2>5. CASE K = {k}
        <3>1. admin' = [admin EXCEPT ![a] = NoAdmin]
            BY <2>1, <2>3, <2>5
        <3>2. QED
            BY <1>4, <3>1, RequestReplaced DEF Publish
    <2>6. CASE K # {k}
        <3>1. admin' = [admin EXCEPT ![a] = [at |-> "publish", keys |-> K \ {k}]]
            BY <2>1, <2>3, <2>6
        <3>2. QED
            BY <1>4, <2>4, <3>1, RequestReplaced DEF Publish
    <2>7. QED
        BY <2>5, <2>6
<1>5. ASSUME NEW k \in Keys, migrateFromEnv(k) PROVE SettingsInv'
    BY <1>5, MigrationKeepsInv
<1>6. CASE MessageLost
    <2>1. CASE \E a \in Admins : admin' = [admin EXCEPT ![a] = NoAdmin]
        BY <1>6, <2>1, RequestReplaced DEF MessageLost
    <2>2. CASE UNCHANGED admin
        BY <1>6, <2>2, RequestsUnchanged DEF MessageLost
    <2>3. QED
        BY <1>6, <2>1, <2>2 DEF MessageLost
<1>7. CASE WorkerStep
    <2>1. UNCHANGED <<tables, admin>>
        BY <1>7 DEF WorkerStep, Invalidate, RebuildReads, RebuildStores, Swap, RebuildFails,
                    GetRawMisses, GetRawStores, Expire
    <2>2. QED
        BY <2>1, RequestsUnchanged
<1>8. CASE UNCHANGED settingsVars
    BY <1>8, RequestsUnchanged DEF settingsVars
<1>9. QED
    BY <1>1, <1>2, <1>3, <1>4, <1>5, <1>6, <1>7, <1>8 DEF SettingsNext, AdminStep

(* Administrators who write at once leave a history that explains the row:   *)
(* the version they compare is the one they read, and the row and its        *)
(* history are written together (settings-store.ts:195-226, 412-454).        *)
THEOREM HistoriesExplainRows == SettingsSpec => []HistoryExplainsRow
<1>1. SettingsInv => HistoryExplainsRow
    BY DEF SettingsInv, HistoryExplainsRow, Explains
<1>2. QED
    BY <1>1, SettingsInitially, SettingsInductive, PTL DEF SettingsSpec
=============================================================================
