--------------------------- MODULE BudgetStoreProofs ---------------------------
(***************************************************************************)
(* Proofs about BudgetStore, for any number of tasks, sessions and saves.  *)
(***************************************************************************)
EXTENDS BudgetStore, FiniteSetTheorems, TLAPS

\* t's call is a save that has its number.
Saving(t) == pc[t] \in {"open", "write", "rename", "insert"}

\* A save's number is its own, and belongs to its session.
Numbered ==
    /\ \A t \in Tasks : Saving(t) => data[t] <= saves /\ owner[data[t]] = session[t]
    /\ \A t, u \in Tasks : Saving(t) /\ Saving(u) /\ data[t] = data[u] => t = u

\* An inode is only ever reached through the paths of the session it was made
\* for, and a session's two paths never name the same one.
InodesOwned ==
    /\ \A s \in Sessions :
         /\ tmp[s] # None => tmp[s] <= saves /\ owner[tmp[s]] = s
         /\ file[s] # None => file[s] <= saves /\ owner[file[s]] = s /\ file[s] # tmp[s]
    /\ \A t \in Tasks :
         /\ fd[t] # None => fd[t] <= saves /\ owner[fd[t]] = session[t]
         /\ pc[t] = "open" => data[t] # tmp[session[t]] /\ data[t] # file[session[t]]

\* Calls that overlap on a session are known to, and saves and deletes do not
\* when the callers keep them apart.
Apart ==
    \A t, u \in Tasks :
        t # u /\ session[t] = session[u] =>
            /\ Busy(t) /\ Busy(u) => session[t] \in raced
            /\ SerialSaves => pc[t] \notin Mutating \/ pc[u] \notin Mutating

\* A save that nobody disturbs finds what it has put on the disk.
Undisturbed(t) == SerialSaves \/ session[t] \notin raced

SaveInv ==
    \A t \in Tasks : Undisturbed(t) =>
        /\ pc[t] = "write" => tmp[session[t]] = fd[t] /\ content[fd[t]] = {}
        /\ pc[t] = "rename" => tmp[session[t]] = fd[t] /\ content[fd[t]] = {data[t]}
        /\ pc[t] = "insert" => /\ file[session[t]] # None
                               /\ content[file[session[t]]] = {data[t]}

\* When saves are kept apart, a file holds one save, no older than the last one
\* acknowledged, and the saves under way are newer than that.
DiskInv ==
    SerialSaves =>
      /\ \A s \in Sessions :
           /\ file[s] # None => \E v \in 1..saves : content[file[s]] = {v} /\ durable[s] <= v
           /\ durable[s] # None => file[s] # None
      /\ \A t \in Tasks : pc[t] \in {"open", "write", "rename"} => durable[session[t]] < data[t]

\* Of a session whose calls do not overlap, the cache is what the file holds but
\* between the rename and the insert of a save, and after one dropped in between.
CacheInv ==
    /\ \A s \in Sessions \ (raced \cup behind) :
         Coherent(s) \/ \E t \in Tasks : session[t] = s /\ pc[t] = "insert"
    /\ \A t \in Tasks : session[t] \notin raced =>
         /\ pc[t] = "unlink" => cache[session[t]] = None
         /\ pc[t] = "insertLoaded" => /\ file[session[t]] # None
                                      /\ content[file[session[t]]] = {data[t]}

\* What a list has come to.
ListInv ==
    \A t \in Tasks :
        /\ pc[t] = "list" => {s \in Sessions : file[s] # None} \subseteq sighted[t]
        /\ lasting[t] \subseteq {s \in Sessions : durable[s] # None}
        /\ found[t] \subseteq {ListedAs(s) : s \in sighted[t]}
        /\ SerialSaves /\ pc[t] = "list" =>
             \A s \in lasting[t] \ todo[t] : ListedAs(s) \in found[t]

\* What an inode, the cache or a load in progress holds is the session's own data.
OwnData ==
    /\ \A i \in Inodes : \A v \in content[i] :
         i <= saves /\ v <= saves /\ owner[v] = owner[i]
    /\ \A s \in Sessions : cache[s] # None => cache[s] <= saves /\ owner[cache[s]] = s
    /\ \A t \in Tasks :
         pc[t] = "insertLoaded" => data[t] <= saves /\ owner[data[t]] = session[t]

\* No session's file or cache entry ever holds bytes of another session's save.
SessionsSeparate ==
    \A s \in Sessions :
        /\ file[s] # None => \A v \in content[file[s]] : owner[v] = s
        /\ cache[s] # None => owner[cache[s]] = s

IInv == TypeOK /\ Numbered /\ InodesOwned /\ Apart /\ SaveInv /\ DiskInv /\ CacheInv /\ ListInv
-------------------------------------------------------------------------------
\* What the constants are for the provers.
LEMMA ConstantFacts ==
    /\ MaxSaves \in Nat /\ None = 0 /\ None \notin Saves
    /\ Saves = 1..MaxSaves /\ Inodes = Saves
    /\ (CHOOSE s \in Sessions : TRUE) \in Sessions
    /\ SerialSaves \in BOOLEAN
  BY StoreAssumption DEF None, Saves, Inodes

\* A session's file name is listed as the session's id without its suffixes.
LEMMA ListedName == \A s \in Sessions : ListedAs(FileName(s)) = ListedAs(s)
  BY StoreAssumption DEF ListedAs, FileName, Valid, Names

\* Where a save is undisturbed, no other save or delete is at work on its session.
LEMMA AloneAtWork ==
    ASSUME IInv, NEW t \in Tasks, NEW u \in Tasks, t # u, Undisturbed(u),
           pc[t] \in Mutating, pc[u] \in Mutating
    PROVE  session[t] # session[u]
<1>1. Busy(t) /\ Busy(u)
  BY DEF Busy, Mutating
<1> QED
  BY <1>1 DEF IInv, Apart, Undisturbed

\* The inode a save opens is its session's, and not the session's file.
LEMMA OpenedInode ==
    ASSUME IInv, NEW t \in Tasks, OpenTmp(t)
    PROVE  \E i \in Inodes :
             /\ owner[i] = session[t] /\ i # file[session[t]]
             /\ tmp' = [tmp EXCEPT ![session[t]] = i]
             /\ content' = [content EXCEPT ![i] = {}]
             /\ fd' = [fd EXCEPT ![t] = i]
<1> DEFINE i == IF tmp[session[t]] = None THEN data[t] ELSE tmp[session[t]]
<1>1. /\ tmp' = [tmp EXCEPT ![session[t]] = i]
      /\ content' = [content EXCEPT ![i] = {}]
      /\ fd' = [fd EXCEPT ![t] = i]
  BY DEF OpenTmp
<1>2. pc[t] = "open" /\ session[t] \in Sessions
  BY DEF OpenTmp, IInv, TypeOK
<1>3. i \in Inodes /\ owner[i] = session[t] /\ i # file[session[t]]
  BY <1>2, ConstantFacts DEF IInv, TypeOK, Numbered, InodesOwned, Saving
<1> QED
  BY <1>1, <1>3

\* Every variable keeps its type.
LEMMA TypeOKNext ==
    ASSUME IInv, [Next]_vars
    PROVE  TypeOK'
<1> USE ConstantFacts DEF IInv, Goto, Done, MayStart, disk, listing
<1>1. ASSUME NEW t \in Tasks, NEW s \in Sessions, StartSave(t, s), NotListing
      PROVE  TypeOK'
  BY <1>1 DEF TypeOK, StartSave, NotListing
<1>2. ASSUME NEW t \in Tasks, NEW s \in Sessions, LoadMiss(t, s), NotListing
      PROVE  TypeOK'
  BY <1>2 DEF TypeOK, LoadMiss, NotListing
<1>3. ASSUME NEW t \in Tasks, NEW s \in Sessions, StartDelete(t, s), NotListing
      PROVE  TypeOK'
  BY <1>3 DEF TypeOK, StartDelete, NotListing
<1>4. ASSUME NEW t \in Tasks, OpenTmp(t), NotListing
      PROVE  TypeOK'
  BY <1>4 DEF TypeOK, OpenTmp, NotListing
<1>5. ASSUME NEW t \in Tasks, WriteTmp(t), NotListing
      PROVE  TypeOK'
  BY <1>5 DEF TypeOK, WriteTmp, NotListing
<1>6. ASSUME NEW t \in Tasks, WriteFails(t), NotListing
      PROVE  TypeOK'
  BY <1>6 DEF TypeOK, WriteFails, NotListing
<1>7. ASSUME NEW t \in Tasks, RenameTmp(t), NotListing
      PROVE  TypeOK'
  BY <1>7 DEF TypeOK, RenameTmp, NotListing
<1>8. ASSUME NEW t \in Tasks, RenameFails(t), NotListing
      PROVE  TypeOK'
  BY <1>8 DEF TypeOK, RenameFails, NotListing
<1>9. ASSUME NEW t \in Tasks, InsertSaved(t), NotListing
      PROVE  TypeOK'
  BY <1>9 DEF TypeOK, InsertSaved, NotListing
<1>10. ASSUME NEW t \in Tasks, ReadFile(t), NotListing
      PROVE  TypeOK'
  <2>1. PICK v \in Saves : data' = [data EXCEPT ![t] = v]
    BY <1>10 DEF ReadFile, Parsed
  <2> QED
    BY <1>10, <2>1 DEF TypeOK, ReadFile, NotListing
<1>11. ASSUME NEW t \in Tasks, LoadFails(t), NotListing
      PROVE  TypeOK'
  BY <1>11 DEF TypeOK, LoadFails, NotListing
<1>12. ASSUME NEW t \in Tasks, InsertLoaded(t), NotListing
      PROVE  TypeOK'
  BY <1>12 DEF TypeOK, InsertLoaded, NotListing
<1>13. ASSUME NEW t \in Tasks, RemoveCached(t), NotListing
      PROVE  TypeOK'
  BY <1>13 DEF TypeOK, RemoveCached, NotListing
<1>14. ASSUME NEW t \in Tasks, RemoveFile(t), NotListing
      PROVE  TypeOK'
  BY <1>14 DEF TypeOK, RemoveFile, NotListing
<1>15. ASSUME NEW t \in Tasks, RemoveFails(t), NotListing
      PROVE  TypeOK'
  BY <1>15 DEF TypeOK, RemoveFails, NotListing
<1>16. ASSUME NEW t \in Tasks, DropAtLock(t), NotListing
      PROVE  TypeOK'
  BY <1>16 DEF TypeOK, DropAtLock, NotListing
<1>17. ASSUME NEW t \in Tasks, StartList(t)
      PROVE  TypeOK'
  BY <1>17 DEF TypeOK, StartList
<1>18. ASSUME NEW t \in Tasks, ListEnds(t)
      PROVE  TypeOK'
  BY <1>18 DEF TypeOK, ListEnds
<1>19. ASSUME NEW t \in Tasks, NEW s \in Sessions, ListNext(t, s)
      PROVE  TypeOK'
  <2>1. ListedAs(FileName(s)) \in {ListedAs(r) : r \in Sessions}
    BY ListedName
  <2>2. found' \in [Tasks -> SUBSET {ListedAs(r) : r \in Sessions}]
    BY <1>19, <2>1 DEF TypeOK, ListNext
  <2> QED
    BY <1>19, <2>2 DEF TypeOK, ListNext
<1>20. ASSUME Crash
      PROVE  TypeOK'
  BY <1>20 DEF TypeOK, Crash
<1>21. CASE UNCHANGED vars
  BY <1>21 DEF TypeOK, vars
<1> QED
  BY <1>1, <1>2, <1>3, <1>4, <1>5, <1>6, <1>7, <1>8, <1>9, <1>10, <1>11, <1>12, <1>13, <1>14, <1>15, <1>16, <1>17, <1>18, <1>19, <1>20, <1>21 DEF Next

\* Numbers of saves are handed out once.
LEMMA NumberedNext ==
    ASSUME IInv, [Next]_vars
    PROVE  Numbered'
<1> USE ConstantFacts DEF IInv, Goto, Done, MayStart, disk, listing
<1>1. ASSUME NEW t \in Tasks, NEW s \in Sessions, StartSave(t, s), NotListing
      PROVE  Numbered'
  BY <1>1 DEF TypeOK, Numbered, Saving, StartSave
<1>2. ASSUME NEW t \in Tasks, NEW s \in Sessions, LoadMiss(t, s), NotListing
      PROVE  Numbered'
  BY <1>2 DEF TypeOK, Numbered, Saving, LoadMiss
<1>3. ASSUME NEW t \in Tasks, NEW s \in Sessions, StartDelete(t, s), NotListing
      PROVE  Numbered'
  BY <1>3 DEF TypeOK, Numbered, Saving, StartDelete
<1>4. ASSUME NEW t \in Tasks, OpenTmp(t), NotListing
      PROVE  Numbered'
  BY <1>4 DEF TypeOK, Numbered, Saving, OpenTmp
<1>5. ASSUME NEW t \in Tasks, WriteTmp(t), NotListing
      PROVE  Numbered'
  BY <1>5 DEF TypeOK, Numbered, Saving, WriteTmp
<1>6. ASSUME NEW t \in Tasks, WriteFails(t), NotListing
      PROVE  Numbered'
  BY <1>6 DEF TypeOK, Numbered, Saving, WriteFails
<1>7. ASSUME NEW t \in Tasks, RenameTmp(t), NotListing
      PROVE  Numbered'
  BY <1>7 DEF TypeOK, Numbered, Saving, RenameTmp
<1>8. ASSUME NEW t \in Tasks, RenameFails(t), NotListing
      PROVE  Numbered'
  BY <1>8 DEF TypeOK, Numbered, Saving, RenameFails
<1>9. ASSUME NEW t \in Tasks, InsertSaved(t), NotListing
      PROVE  Numbered'
  BY <1>9 DEF TypeOK, Numbered, Saving, InsertSaved
<1>10. ASSUME NEW t \in Tasks, ReadFile(t), NotListing
      PROVE  Numbered'
  BY <1>10 DEF TypeOK, Numbered, Saving, ReadFile, Parsed
<1>11. ASSUME NEW t \in Tasks, LoadFails(t), NotListing
      PROVE  Numbered'
  BY <1>11 DEF TypeOK, Numbered, Saving, LoadFails
<1>12. ASSUME NEW t \in Tasks, InsertLoaded(t), NotListing
      PROVE  Numbered'
  BY <1>12 DEF TypeOK, Numbered, Saving, InsertLoaded
<1>13. ASSUME NEW t \in Tasks, RemoveCached(t), NotListing
      PROVE  Numbered'
  BY <1>13 DEF TypeOK, Numbered, Saving, RemoveCached
<1>14. ASSUME NEW t \in Tasks, RemoveFile(t), NotListing
      PROVE  Numbered'
  BY <1>14 DEF TypeOK, Numbered, Saving, RemoveFile
<1>15. ASSUME NEW t \in Tasks, RemoveFails(t), NotListing
      PROVE  Numbered'
  BY <1>15 DEF TypeOK, Numbered, Saving, RemoveFails
<1>16. ASSUME NEW t \in Tasks, DropAtLock(t), NotListing
      PROVE  Numbered'
  BY <1>16 DEF TypeOK, Numbered, Saving, DropAtLock
<1>17. ASSUME NEW t \in Tasks, StartList(t)
      PROVE  Numbered'
  BY <1>17 DEF TypeOK, Numbered, Saving, StartList
<1>18. ASSUME NEW t \in Tasks, ListEnds(t)
      PROVE  Numbered'
  BY <1>18 DEF TypeOK, Numbered, Saving, ListEnds
<1>19. ASSUME NEW t \in Tasks, NEW s \in Sessions, ListNext(t, s)
      PROVE  Numbered'
  BY <1>19 DEF TypeOK, Numbered, Saving, ListNext
<1>20. ASSUME Crash
      PROVE  Numbered'
  BY <1>20 DEF TypeOK, Numbered, Saving, Crash
<1>21. CASE UNCHANGED vars
  BY <1>21 DEF TypeOK, Numbered, Saving, vars
<1> QED
  BY <1>1, <1>2, <1>3, <1>4, <1>5, <1>6, <1>7, <1>8, <1>9, <1>10, <1>11, <1>12, <1>13, <1>14, <1>15, <1>16, <1>17, <1>18, <1>19, <1>20, <1>21 DEF Next

\* Inodes stay with their session.
LEMMA InodesOwnedNext ==
    ASSUME IInv, [Next]_vars
    PROVE  InodesOwned'
<1> USE ConstantFacts DEF IInv, Goto, Done, MayStart, disk, listing
<1>1. ASSUME NEW t \in Tasks, NEW s \in Sessions, StartSave(t, s), NotListing
      PROVE  InodesOwned'
  <2>1. /\ saves' = saves + 1 /\ UNCHANGED <<tmp, file, fd>> /\ pc[t] = "idle"
        /\ session' = [session EXCEPT ![t] = s] /\ pc' = [pc EXCEPT ![t] = "open"]
        /\ data' = [data EXCEPT ![t] = saves + 1] /\ owner' = Append(owner, s)
    BY <1>1 DEF StartSave
  <2>2. saves \in Nat /\ fd[t] = None /\ owner \in Seq(Sessions) /\ Len(owner) = saves
    <3>1. saves \in Nat /\ owner \in Seq(Sessions) /\ Len(owner) = saves
      BY DEF TypeOK
    <3>2. fd[t] = None
      BY <2>1 DEF TypeOK
    <3> QED
      BY <3>1, <3>2
  <2>3. \A i \in Inodes : i <= saves => i <= saves' /\ owner'[i] = owner[i]
    <3>1. \A n \in 1..saves : owner'[n] = owner[n]
      BY <2>1, <2>2
    <3>2. \A i \in Inodes : i <= saves => i \in 1..saves /\ i <= saves + 1
      BY <2>2
    <3> QED
      BY <2>1, <3>1, <3>2
  <2>4. \A r \in Sessions :
           /\ tmp'[r] # None => tmp'[r] <= saves' /\ owner'[tmp'[r]] = r
           /\ file'[r] # None => /\ file'[r] <= saves' /\ owner'[file'[r]] = r
                                 /\ file'[r] # tmp'[r]
    BY <2>1, <2>3 DEF TypeOK, InodesOwned
  <2>5. ASSUME NEW u \in Tasks
        PROVE  /\ fd'[u] # None => fd'[u] <= saves' /\ owner'[fd'[u]] = session'[u]
               /\ pc'[u] = "open" => /\ data'[u] # tmp'[session'[u]]
                                     /\ data'[u] # file'[session'[u]]
    <3>1. CASE u = t
      <4>1. tmp[s] # saves + 1 /\ file[s] # saves + 1
        BY <2>2 DEF TypeOK, InodesOwned
      <4> QED
        BY <2>1, <2>2, <3>1, <4>1 DEF TypeOK
    <3>2. CASE u # t
      BY <2>1, <2>3, <3>2 DEF TypeOK, InodesOwned
    <3> QED
      BY <3>1, <3>2
  <2> QED
    BY <2>4, <2>5 DEF InodesOwned
<1>2. ASSUME NEW t \in Tasks, NEW s \in Sessions, LoadMiss(t, s), NotListing
      PROVE  InodesOwned'
  BY <1>2 DEF TypeOK, Numbered, InodesOwned, Saving, LoadMiss
<1>3. ASSUME NEW t \in Tasks, NEW s \in Sessions, StartDelete(t, s), NotListing
      PROVE  InodesOwned'
  <2>1. fd[t] = None
    BY <1>3 DEF TypeOK, StartDelete
  <2>2. \A u \in Tasks : fd'[u] # None => u # t /\ session'[u] = session[u]
    BY <1>3, <2>1 DEF TypeOK, StartDelete
  <2>3. \A u \in Tasks : pc'[u] = "open" => pc[u] = "open" /\ session'[u] = session[u]
    BY <1>3 DEF TypeOK, StartDelete
  <2> QED
    BY <1>3, <2>2, <2>3 DEF InodesOwned, StartDelete
<1>4. ASSUME NEW t \in Tasks, OpenTmp(t), NotListing
      PROVE  InodesOwned'
  BY <1>4 DEF TypeOK, Numbered, InodesOwned, Saving, OpenTmp
<1>5. ASSUME NEW t \in Tasks, WriteTmp(t), NotListing
      PROVE  InodesOwned'
  BY <1>5 DEF TypeOK, Numbered, InodesOwned, Saving, WriteTmp
<1>6. ASSUME NEW t \in Tasks, WriteFails(t), NotListing
      PROVE  InodesOwned'
  BY <1>6 DEF TypeOK, Numbered, InodesOwned, Saving, WriteFails
<1>7. ASSUME NEW t \in Tasks, RenameTmp(t), NotListing
      PROVE  InodesOwned'
  BY <1>7 DEF TypeOK, Numbered, InodesOwned, Saving, RenameTmp
<1>8. ASSUME NEW t \in Tasks, RenameFails(t), NotListing
      PROVE  InodesOwned'
  BY <1>8 DEF TypeOK, Numbered, InodesOwned, Saving, RenameFails
<1>9. ASSUME NEW t \in Tasks, InsertSaved(t), NotListing
      PROVE  InodesOwned'
  BY <1>9 DEF TypeOK, Numbered, InodesOwned, Saving, InsertSaved
<1>10. ASSUME NEW t \in Tasks, ReadFile(t), NotListing
      PROVE  InodesOwned'
  BY <1>10 DEF TypeOK, Numbered, InodesOwned, Saving, ReadFile, Parsed
<1>11. ASSUME NEW t \in Tasks, LoadFails(t), NotListing
      PROVE  InodesOwned'
  BY <1>11 DEF TypeOK, Numbered, InodesOwned, Saving, LoadFails
<1>12. ASSUME NEW t \in Tasks, InsertLoaded(t), NotListing
      PROVE  InodesOwned'
  BY <1>12 DEF TypeOK, Numbered, InodesOwned, Saving, InsertLoaded
<1>13. ASSUME NEW t \in Tasks, RemoveCached(t), NotListing
      PROVE  InodesOwned'
  BY <1>13 DEF TypeOK, Numbered, InodesOwned, Saving, RemoveCached
<1>14. ASSUME NEW t \in Tasks, RemoveFile(t), NotListing
      PROVE  InodesOwned'
  BY <1>14 DEF TypeOK, Numbered, InodesOwned, Saving, RemoveFile
<1>15. ASSUME NEW t \in Tasks, RemoveFails(t), NotListing
      PROVE  InodesOwned'
  BY <1>15 DEF TypeOK, Numbered, InodesOwned, Saving, RemoveFails
<1>16. ASSUME NEW t \in Tasks, DropAtLock(t), NotListing
      PROVE  InodesOwned'
  BY <1>16 DEF TypeOK, Numbered, InodesOwned, Saving, DropAtLock
<1>17. ASSUME NEW t \in Tasks, StartList(t)
      PROVE  InodesOwned'
  BY <1>17 DEF TypeOK, Numbered, InodesOwned, Saving, StartList
<1>18. ASSUME NEW t \in Tasks, ListEnds(t)
      PROVE  InodesOwned'
  BY <1>18 DEF TypeOK, Numbered, InodesOwned, Saving, ListEnds
<1>19. ASSUME NEW t \in Tasks, NEW s \in Sessions, ListNext(t, s)
      PROVE  InodesOwned'
  BY <1>19 DEF TypeOK, Numbered, InodesOwned, Saving, ListNext
<1>20. ASSUME Crash
      PROVE  InodesOwned'
  BY <1>20 DEF TypeOK, Numbered, InodesOwned, Saving, Crash
<1>21. CASE UNCHANGED vars
  BY <1>21 DEF TypeOK, Numbered, InodesOwned, Saving, vars
<1> QED
  BY <1>1, <1>2, <1>3, <1>4, <1>5, <1>6, <1>7, <1>8, <1>9, <1>10, <1>11, <1>12, <1>13, <1>14, <1>15, <1>16, <1>17, <1>18, <1>19, <1>20, <1>21 DEF Next

\* Calls that overlap are noted.
LEMMA ApartNext ==
    ASSUME IInv, [Next]_vars
    PROVE  Apart'
<1> USE ConstantFacts DEF IInv, Goto, Done, MayStart, disk, listing
<1>1. ASSUME NEW t \in Tasks, NEW s \in Sessions, StartSave(t, s), NotListing
      PROVE  Apart'
  BY <1>1 DEF TypeOK, Apart, Busy, Mutating, StartSave
<1>2. ASSUME NEW t \in Tasks, NEW s \in Sessions, LoadMiss(t, s), NotListing
      PROVE  Apart'
  BY <1>2 DEF TypeOK, Apart, Busy, Mutating, LoadMiss
<1>3. ASSUME NEW t \in Tasks, NEW s \in Sessions, StartDelete(t, s), NotListing
      PROVE  Apart'
  BY <1>3 DEF TypeOK, Apart, Busy, Mutating, StartDelete
<1>4. ASSUME NEW t \in Tasks, OpenTmp(t), NotListing
      PROVE  Apart'
  BY <1>4 DEF TypeOK, Apart, Busy, Mutating, OpenTmp
<1>5. ASSUME NEW t \in Tasks, WriteTmp(t), NotListing
      PROVE  Apart'
  BY <1>5 DEF TypeOK, Apart, Busy, Mutating, WriteTmp
<1>6. ASSUME NEW t \in Tasks, WriteFails(t), NotListing
      PROVE  Apart'
  BY <1>6 DEF TypeOK, Apart, Busy, Mutating, WriteFails
<1>7. ASSUME NEW t \in Tasks, RenameTmp(t), NotListing
      PROVE  Apart'
  BY <1>7 DEF TypeOK, Apart, Busy, Mutating, RenameTmp
<1>8. ASSUME NEW t \in Tasks, RenameFails(t), NotListing
      PROVE  Apart'
  BY <1>8 DEF TypeOK, Apart, Busy, Mutating, RenameFails
<1>9. ASSUME NEW t \in Tasks, InsertSaved(t), NotListing
      PROVE  Apart'
  BY <1>9 DEF TypeOK, Apart, Busy, Mutating, InsertSaved
<1>10. ASSUME NEW t \in Tasks, ReadFile(t), NotListing
      PROVE  Apart'
  BY <1>10 DEF TypeOK, Apart, Busy, Mutating, ReadFile, Parsed
<1>11. ASSUME NEW t \in Tasks, LoadFails(t), NotListing
      PROVE  Apart'
  BY <1>11 DEF TypeOK, Apart, Busy, Mutating, LoadFails
<1>12. ASSUME NEW t \in Tasks, InsertLoaded(t), NotListing
      PROVE  Apart'
  BY <1>12 DEF TypeOK, Apart, Busy, Mutating, InsertLoaded
<1>13. ASSUME NEW t \in Tasks, RemoveCached(t), NotListing
      PROVE  Apart'
  BY <1>13 DEF TypeOK, Apart, Busy, Mutating, RemoveCached
<1>14. ASSUME NEW t \in Tasks, RemoveFile(t), NotListing
      PROVE  Apart'
  BY <1>14 DEF TypeOK, Apart, Busy, Mutating, RemoveFile
<1>15. ASSUME NEW t \in Tasks, RemoveFails(t), NotListing
      PROVE  Apart'
  BY <1>15 DEF TypeOK, Apart, Busy, Mutating, RemoveFails
<1>16. ASSUME NEW t \in Tasks, DropAtLock(t), NotListing
      PROVE  Apart'
  BY <1>16 DEF TypeOK, Apart, Busy, Mutating, DropAtLock
<1>17. ASSUME NEW t \in Tasks, StartList(t)
      PROVE  Apart'
  BY <1>17 DEF TypeOK, Apart, Busy, Mutating, StartList
<1>18. ASSUME NEW t \in Tasks, ListEnds(t)
      PROVE  Apart'
  BY <1>18 DEF TypeOK, Apart, Busy, Mutating, ListEnds
<1>19. ASSUME NEW t \in Tasks, NEW s \in Sessions, ListNext(t, s)
      PROVE  Apart'
  BY <1>19 DEF TypeOK, Apart, Busy, Mutating, ListNext
<1>20. ASSUME Crash
      PROVE  Apart'
  BY <1>20 DEF TypeOK, Apart, Busy, Mutating, Crash
<1>21. CASE UNCHANGED vars
  BY <1>21 DEF TypeOK, Apart, Busy, Mutating, vars
<1> QED
  BY <1>1, <1>2, <1>3, <1>4, <1>5, <1>6, <1>7, <1>8, <1>9, <1>10, <1>11, <1>12, <1>13, <1>14, <1>15, <1>16, <1>17, <1>18, <1>19, <1>20, <1>21 DEF Next

\* An undisturbed save finds what it wrote.
LEMMA SaveInvNext ==
    ASSUME IInv, [Next]_vars
    PROVE  SaveInv'
<1> USE ConstantFacts DEF IInv, Goto, Done, MayStart, disk, listing
<1>1. ASSUME NEW t \in Tasks, NEW s \in Sessions, StartSave(t, s), NotListing
      PROVE  SaveInv'
  BY <1>1 DEF TypeOK, Numbered, InodesOwned, Apart, SaveInv, Undisturbed, Saving, Busy, Mutating, StartSave
<1>2. ASSUME NEW t \in Tasks, NEW s \in Sessions, LoadMiss(t, s), NotListing
      PROVE  SaveInv'
  BY <1>2 DEF TypeOK, Numbered, InodesOwned, Apart, SaveInv, Undisturbed, Saving, Busy, Mutating, LoadMiss
<1>3. ASSUME NEW t \in Tasks, NEW s \in Sessions, StartDelete(t, s), NotListing
      PROVE  SaveInv'
  BY <1>3 DEF TypeOK, Numbered, InodesOwned, Apart, SaveInv, Undisturbed, Saving, Busy, Mutating, StartDelete
<1>4. ASSUME NEW t \in Tasks, OpenTmp(t), NotListing
      PROVE  SaveInv'
  <2> SUFFICES ASSUME NEW u \in Tasks, Undisturbed(u)'
               PROVE  /\ pc'[u] = "write" => tmp'[session'[u]] = fd'[u] /\ content'[fd'[u]] = {}
                      /\ pc'[u] = "rename" =>
                           tmp'[session'[u]] = fd'[u] /\ content'[fd'[u]] = {data'[u]}
                      /\ pc'[u] = "insert" => /\ file'[session'[u]] # None
                                              /\ content'[file'[session'[u]]] = {data'[u]}
    BY DEF SaveInv
  <2>1. PICK i \in Inodes :
             /\ owner[i] = session[t] /\ i # file[session[t]]
             /\ tmp' = [tmp EXCEPT ![session[t]] = i]
             /\ content' = [content EXCEPT ![i] = {}]
             /\ fd' = [fd EXCEPT ![t] = i]
    BY <1>4, OpenedInode
  <2>2. /\ pc[t] = "open" /\ pc' = [pc EXCEPT ![t] = "write"] /\ session' = session
        /\ data' = data /\ file' = file /\ raced' = raced
    BY <1>4 DEF OpenTmp
  <2>3. CASE u = t
    BY <2>1, <2>2, <2>3 DEF TypeOK
  <2>4. CASE u # t /\ pc[u] \in {"write", "rename", "insert"}
    <3>1. Undisturbed(u) /\ pc[t] \in Mutating /\ pc[u] \in Mutating
      BY <2>2, <2>4 DEF Undisturbed, Mutating
    <3>2. session[t] # session[u]
      BY <2>4, <3>1, AloneAtWork
    <3>3. fd[u] # None => fd[u] # i
      BY <2>1, <3>2 DEF InodesOwned
    <3>4. file[session[u]] # None => file[session[u]] # i
      BY <2>1, <3>2 DEF InodesOwned, TypeOK
    <3> QED
      BY <2>1, <2>2, <2>4, <3>1, <3>2, <3>3, <3>4 DEF TypeOK, SaveInv
  <2>5. CASE u # t /\ pc[u] \notin {"write", "rename", "insert"}
    BY <2>2, <2>5 DEF TypeOK
  <2> QED
    BY <2>3, <2>4, <2>5
<1>5. ASSUME NEW t \in Tasks, WriteTmp(t), NotListing
      PROVE  SaveInv'
  <2> SUFFICES ASSUME NEW u \in Tasks, Undisturbed(u)'
               PROVE  /\ pc'[u] = "write" => tmp'[session'[u]] = fd'[u] /\ content'[fd'[u]] = {}
                      /\ pc'[u] = "rename" =>
                           tmp'[session'[u]] = fd'[u] /\ content'[fd'[u]] = {data'[u]}
                      /\ pc'[u] = "insert" => /\ file'[session'[u]] # None
                                              /\ content'[file'[session'[u]]] = {data'[u]}
    BY DEF SaveInv
  <2>1. PICK left \in {{}, content[fd[t]]} :
             content' = [content EXCEPT ![fd[t]] = left \cup {data[t]}]
    BY <1>5 DEF WriteTmp
  <2>2. /\ pc[t] = "write" /\ pc' = [pc EXCEPT ![t] = "rename"] /\ session' = session
        /\ data' = data /\ file' = file /\ tmp' = tmp /\ fd' = fd /\ raced' = raced
    BY <1>5 DEF WriteTmp
  <2>3. fd[t] \in Inodes /\ owner[fd[t]] = session[t]
    BY <2>2 DEF TypeOK, InodesOwned
  <2>4. Undisturbed(u)
    BY <2>2 DEF Undisturbed
  <2>5. CASE u = t
    <3>1. tmp[session[t]] = fd[t] /\ content[fd[t]] = {}
      BY <2>2, <2>4, <2>5 DEF SaveInv
    <3>2. content'[fd[t]] = {data[t]}
      BY <2>1, <2>3, <3>1 DEF TypeOK
    <3> QED
      BY <2>2, <2>5, <3>1, <3>2 DEF TypeOK
  <2>6. CASE u # t /\ pc[u] \in {"write", "rename", "insert"}
    <3>1. pc[t] \in Mutating /\ pc[u] \in Mutating
      BY <2>2, <2>6 DEF Mutating
    <3>2. session[t] # session[u]
      BY <2>4, <2>6, <3>1, AloneAtWork
    <3>3. fd[u] # None => fd[u] # fd[t]
      BY <2>3, <3>2 DEF InodesOwned
    <3>4. file[session[u]] # None => file[session[u]] # fd[t]
      BY <2>3, <3>2 DEF InodesOwned, TypeOK
    <3> QED
      BY <2>1, <2>2, <2>4, <2>6, <3>2, <3>3, <3>4 DEF TypeOK, SaveInv
  <2>7. CASE u # t /\ pc[u] \notin {"write", "rename", "insert"}
    BY <2>2, <2>7 DEF TypeOK
  <2> QED
    BY <2>5, <2>6, <2>7
<1>6. ASSUME NEW t \in Tasks, WriteFails(t), NotListing
      PROVE  SaveInv'
  BY <1>6 DEF TypeOK, Numbered, InodesOwned, Apart, SaveInv, Undisturbed, Saving, Busy, Mutating, WriteFails
<1>7. ASSUME NEW t \in Tasks, RenameTmp(t), NotListing
      PROVE  SaveInv'
  <2> SUFFICES ASSUME NEW u \in Tasks, Undisturbed(u)'
               PROVE  /\ pc'[u] = "write" => tmp'[session'[u]] = fd'[u] /\ content'[fd'[u]] = {}
                      /\ pc'[u] = "rename" =>
                           tmp'[session'[u]] = fd'[u] /\ content'[fd'[u]] = {data'[u]}
                      /\ pc'[u] = "insert" => /\ file'[session'[u]] # None
                                              /\ content'[file'[session'[u]]] = {data'[u]}
    BY DEF SaveInv
  <2>1. /\ pc[t] = "rename" /\ pc' = [pc EXCEPT ![t] = "insert"] /\ session' = session
        /\ data' = data /\ content' = content /\ fd' = fd /\ raced' = raced
        /\ tmp[session[t]] # None
        /\ file' = [file EXCEPT ![session[t]] = tmp[session[t]]]
        /\ tmp' = [tmp EXCEPT ![session[t]] = None]
    BY <1>7 DEF RenameTmp
  <2>2. Undisturbed(u) /\ session[t] \in Sessions
    BY <2>1 DEF Undisturbed, TypeOK
  <2>3. CASE u = t
    <3>1. tmp[session[t]] = fd[t] /\ content[fd[t]] = {data[t]}
      BY <2>1, <2>2, <2>3 DEF SaveInv
    <3> QED
      BY <2>1, <2>2, <2>3, <3>1 DEF TypeOK
  <2>4. CASE u # t /\ pc[u] \in {"write", "rename", "insert"}
    <3>1. pc[t] \in Mutating /\ pc[u] \in Mutating
      BY <2>1, <2>4 DEF Mutating
    <3>2. session[t] # session[u]
      BY <2>2, <2>4, <3>1, AloneAtWork
    <3> QED
      BY <2>1, <2>2, <2>4, <3>2 DEF TypeOK, SaveInv
  <2>5. CASE u # t /\ pc[u] \notin {"write", "rename", "insert"}
    BY <2>1, <2>5 DEF TypeOK
  <2> QED
    BY <2>3, <2>4, <2>5
<1>8. ASSUME NEW t \in Tasks, RenameFails(t), NotListing
      PROVE  SaveInv'
  BY <1>8 DEF TypeOK, Numbered, InodesOwned, Apart, SaveInv, Undisturbed, Saving, Busy, Mutating, RenameFails
<1>9. ASSUME NEW t \in Tasks, InsertSaved(t), NotListing
      PROVE  SaveInv'
  BY <1>9 DEF TypeOK, Numbered, InodesOwned, Apart, SaveInv, Undisturbed, Saving, Busy, Mutating, InsertSaved
<1>10. ASSUME NEW t \in Tasks, ReadFile(t), NotListing
      PROVE  SaveInv'
  BY <1>10 DEF TypeOK, Numbered, InodesOwned, Apart, SaveInv, Undisturbed, Saving, Busy, Mutating, ReadFile, Parsed
<1>11. ASSUME NEW t \in Tasks, LoadFails(t), NotListing
      PROVE  SaveInv'
  BY <1>11 DEF TypeOK, Numbered, InodesOwned, Apart, SaveInv, Undisturbed, Saving, Busy, Mutating, LoadFails
<1>12. ASSUME NEW t \in Tasks, InsertLoaded(t), NotListing
      PROVE  SaveInv'
  BY <1>12 DEF TypeOK, Numbered, InodesOwned, Apart, SaveInv, Undisturbed, Saving, Busy, Mutating, InsertLoaded
<1>13. ASSUME NEW t \in Tasks, RemoveCached(t), NotListing
      PROVE  SaveInv'
  BY <1>13 DEF TypeOK, Numbered, InodesOwned, Apart, SaveInv, Undisturbed, Saving, Busy, Mutating, RemoveCached
<1>14. ASSUME NEW t \in Tasks, RemoveFile(t), NotListing
      PROVE  SaveInv'
  <2> SUFFICES ASSUME NEW u \in Tasks, Undisturbed(u)'
               PROVE  /\ pc'[u] = "write" => tmp'[session'[u]] = fd'[u] /\ content'[fd'[u]] = {}
                      /\ pc'[u] = "rename" =>
                           tmp'[session'[u]] = fd'[u] /\ content'[fd'[u]] = {data'[u]}
                      /\ pc'[u] = "insert" => /\ file'[session'[u]] # None
                                              /\ content'[file'[session'[u]]] = {data'[u]}
    BY DEF SaveInv
  <2>1. /\ pc[t] = "unlink" /\ pc' = [pc EXCEPT ![t] = "idle"]
        /\ \A r \in Tasks \ {t} : /\ session'[r] = session[r] /\ data'[r] = data[r]
                                  /\ fd'[r] = fd[r]
        /\ content' = content /\ tmp' = tmp /\ raced' = raced
        /\ file' = [file EXCEPT ![session[t]] = None]
    BY <1>14 DEF TypeOK, RemoveFile
  <2>2. CASE u = t
    BY <2>1, <2>2 DEF TypeOK
  <2>3. CASE u # t /\ pc[u] \in {"write", "rename", "insert"}
    <3>1. Undisturbed(u) /\ pc[t] \in Mutating /\ pc[u] \in Mutating
      BY <2>1, <2>3 DEF Undisturbed, Mutating
    <3>2. session[t] # session[u]
      BY <2>3, <3>1, AloneAtWork
    <3> QED
      BY <2>1, <2>3, <3>1, <3>2 DEF TypeOK, SaveInv
  <2>4. CASE u # t /\ pc[u] \notin {"write", "rename", "insert"}
    BY <2>1, <2>4 DEF TypeOK
  <2> QED
    BY <2>2, <2>3, <2>4
<1>15. ASSUME NEW t \in Tasks, RemoveFails(t), NotListing
      PROVE  SaveInv'
  BY <1>15 DEF TypeOK, Numbered, InodesOwned, Apart, SaveInv, Undisturbed, Saving, Busy, Mutating, RemoveFails
<1>16. ASSUME NEW t \in Tasks, DropAtLock(t), NotListing
      PROVE  SaveInv'
  BY <1>16 DEF TypeOK, Numbered, InodesOwned, Apart, SaveInv, Undisturbed, Saving, Busy, Mutating, DropAtLock
<1>17. ASSUME NEW t \in Tasks, StartList(t)
      PROVE  SaveInv'
  BY <1>17 DEF TypeOK, Numbered, InodesOwned, Apart, SaveInv, Undisturbed, Saving, Busy, Mutating, StartList
<1>18. ASSUME NEW t \in Tasks, ListEnds(t)
      PROVE  SaveInv'
  BY <1>18 DEF TypeOK, Numbered, InodesOwned, Apart, SaveInv, Undisturbed, Saving, Busy, Mutating, ListEnds
<1>19. ASSUME NEW t \in Tasks, NEW s \in Sessions, ListNext(t, s)
      PROVE  SaveInv'
  BY <1>19 DEF TypeOK, Numbered, InodesOwned, Apart, SaveInv, Undisturbed, Saving, Busy, Mutating, ListNext
<1>20. ASSUME Crash
      PROVE  SaveInv'
  BY <1>20 DEF TypeOK, Numbered, InodesOwned, Apart, SaveInv, Undisturbed, Saving, Busy, Mutating, Crash
<1>21. CASE UNCHANGED vars
  BY <1>21 DEF TypeOK, Numbered, InodesOwned, Apart, SaveInv, Undisturbed, Saving, Busy, Mutating, vars
<1> QED
  BY <1>1, <1>2, <1>3, <1>4, <1>5, <1>6, <1>7, <1>8, <1>9, <1>10, <1>11, <1>12, <1>13, <1>14, <1>15, <1>16, <1>17, <1>18, <1>19, <1>20, <1>21 DEF Next

\* Files hold complete saves that are new enough.
LEMMA DiskInvNext ==
    ASSUME IInv, [Next]_vars
    PROVE  DiskInv'
<1> USE ConstantFacts DEF IInv, Goto, Done, MayStart, disk, listing
<1>1. ASSUME NEW t \in Tasks, NEW s \in Sessions, StartSave(t, s), NotListing
      PROVE  DiskInv'
  BY <1>1 DEF TypeOK, Numbered, InodesOwned, Apart, SaveInv, DiskInv, Undisturbed, Saving, Mutating, StartSave
<1>2. ASSUME NEW t \in Tasks, NEW s \in Sessions, LoadMiss(t, s), NotListing
      PROVE  DiskInv'
  BY <1>2 DEF TypeOK, Numbered, InodesOwned, Apart, SaveInv, DiskInv, Undisturbed, Saving, Mutating, LoadMiss
<1>3. ASSUME NEW t \in Tasks, NEW s \in Sessions, StartDelete(t, s), NotListing
      PROVE  DiskInv'
  BY <1>3 DEF TypeOK, Numbered, InodesOwned, Apart, SaveInv, DiskInv, Undisturbed, Saving, Mutating, StartDelete
<1>4. ASSUME NEW t \in Tasks, OpenTmp(t), NotListing
      PROVE  DiskInv'
  <2>1. PICK i \in Inodes :
             /\ owner[i] = session[t] /\ i # file[session[t]]
             /\ content' = [content EXCEPT ![i] = {}]
    BY <1>4, OpenedInode
  <2>2. \A r \in Sessions : file[r] # None => file[r] # i
    BY <2>1 DEF InodesOwned
  <2>3. \A r \in Sessions : file[r] # None => content'[file[r]] = content[file[r]]
    BY <2>1, <2>2 DEF TypeOK
  <2>4. /\ UNCHANGED <<saves, file, durable, session, data>>
        /\ pc[t] = "open" /\ \A u \in Tasks \ {t} : pc'[u] = pc[u]
    BY <1>4 DEF TypeOK, OpenTmp
  <2> QED
    BY <2>3, <2>4 DEF DiskInv
<1>5. ASSUME NEW t \in Tasks, WriteTmp(t), NotListing
      PROVE  DiskInv'
  <2> SUFFICES ASSUME SerialSaves
               PROVE  DiskInv'
    BY DEF DiskInv
  <2>1. PICK left \in {{}, content[fd[t]]} :
             content' = [content EXCEPT ![fd[t]] = left \cup {data[t]}]
    BY <1>5 DEF WriteTmp
  <2>2. /\ UNCHANGED <<saves, file, durable, session, data>>
        /\ pc[t] = "write" /\ \A u \in Tasks \ {t} : pc'[u] = pc[u]
    BY <1>5 DEF TypeOK, WriteTmp
  <2>3. /\ fd[t] \in Inodes /\ owner[fd[t]] = session[t] /\ session[t] \in Sessions
        /\ tmp[session[t]] = fd[t]
    BY <2>2 DEF TypeOK, InodesOwned, SaveInv, Undisturbed
  <2>4. \A r \in Sessions : file[r] # None => file[r] # fd[t]
    BY <2>3 DEF InodesOwned
  <2>5. \A r \in Sessions : file[r] # None => content'[file[r]] = content[file[r]]
    BY <2>1, <2>4 DEF TypeOK
  <2> QED
    BY <2>2, <2>5 DEF DiskInv
<1>6. ASSUME NEW t \in Tasks, WriteFails(t), NotListing
      PROVE  DiskInv'
  BY <1>6 DEF TypeOK, Numbered, InodesOwned, Apart, SaveInv, DiskInv, Undisturbed, Saving, Mutating, WriteFails
<1>7. ASSUME NEW t \in Tasks, RenameTmp(t), NotListing
      PROVE  DiskInv'
  <2> SUFFICES ASSUME SerialSaves
               PROVE  DiskInv'
    BY DEF DiskInv
  <2>1. /\ UNCHANGED <<saves, durable, session, data, content>>
        /\ pc[t] = "rename" /\ pc'[t] = "insert" /\ \A u \in Tasks \ {t} : pc'[u] = pc[u]
        /\ tmp[session[t]] # None
        /\ file' = [file EXCEPT ![session[t]] = tmp[session[t]]]
    BY <1>7 DEF TypeOK, RenameTmp
  <2>2. /\ session[t] \in Sessions /\ content[tmp[session[t]]] = {data[t]}
        /\ data[t] \in 1..saves /\ durable[session[t]] <= data[t]
    <3>1. session[t] \in Sessions
      BY DEF TypeOK
    <3>2. content[tmp[session[t]]] = {data[t]}
      BY <2>1 DEF SaveInv, Undisturbed
    <3>3. data[t] \in Saves
      BY <2>1 DEF TypeOK
    <3>4. data[t] <= saves
      BY <2>1 DEF Numbered, Saving
    <3>5. saves \in Nat /\ durable[session[t]] \in Nat
      BY <3>1 DEF TypeOK
    <3>6. durable[session[t]] < data[t]
      BY <2>1 DEF DiskInv
    <3> QED
      BY <3>1, <3>2, <3>3, <3>4, <3>5, <3>6
  <2>3. \A r \in Sessions \ {session[t]} : file'[r] = file[r]
    BY <2>1 DEF TypeOK
  <2>4. file'[session[t]] = tmp[session[t]]
    BY <2>1, <2>2 DEF TypeOK
  <2>5. \A r \in Sessions : file'[r] # None =>
             \E v \in 1..saves : content[file'[r]] = {v} /\ durable[r] <= v
    <3> SUFFICES ASSUME NEW r \in Sessions, file'[r] # None
                 PROVE  \E v \in 1..saves : content[file'[r]] = {v} /\ durable[r] <= v
      OBVIOUS
    <3>1. CASE r = session[t]
      BY <2>2, <2>4, <3>1
    <3>2. CASE r # session[t]
      BY <2>3, <3>2 DEF DiskInv
    <3> QED
      BY <3>1, <3>2
  <2>6. \A r \in Sessions : durable[r] # None => file'[r] # None
    BY <2>1, <2>3, <2>4 DEF DiskInv
  <2> QED
    BY <2>1, <2>5, <2>6 DEF DiskInv
<1>8. ASSUME NEW t \in Tasks, RenameFails(t), NotListing
      PROVE  DiskInv'
  BY <1>8 DEF TypeOK, Numbered, InodesOwned, Apart, SaveInv, DiskInv, Undisturbed, Saving, Mutating, RenameFails
<1>9. ASSUME NEW t \in Tasks, InsertSaved(t), NotListing
      PROVE  DiskInv'
  <2> SUFFICES ASSUME SerialSaves
               PROVE  DiskInv'
    BY DEF DiskInv
  <2>1. /\ UNCHANGED <<saves, file, content>> /\ pc[t] = "insert" /\ pc'[t] = "idle"
        /\ \A u \in Tasks \ {t} : /\ pc'[u] = pc[u] /\ session'[u] = session[u]
                                  /\ data'[u] = data[u]
        /\ durable' = [durable EXCEPT ![session[t]] = data[t]]
    BY <1>9 DEF TypeOK, InsertSaved
  <2>2. /\ session[t] \in Sessions /\ file[session[t]] # None
        /\ content[file[session[t]]] = {data[t]} /\ data[t] \in 1..saves
    BY <2>1 DEF TypeOK, SaveInv, Undisturbed, Numbered, Saving
  <2>3. /\ durable'[session[t]] = data[t]
        /\ \A r \in Sessions \ {session[t]} : durable'[r] = durable[r]
    BY <2>1, <2>2 DEF TypeOK
  <2>4. \A r \in Sessions : file[r] # None =>
             \E v \in 1..saves : content[file[r]] = {v} /\ durable'[r] <= v
    <3> SUFFICES ASSUME NEW r \in Sessions, file[r] # None
                 PROVE  \E v \in 1..saves : content[file[r]] = {v} /\ durable'[r] <= v
      OBVIOUS
    <3>1. CASE r = session[t]
      BY <2>2, <2>3, <3>1
    <3>2. CASE r # session[t]
      BY <2>3, <3>2 DEF DiskInv
    <3> QED
      BY <3>1, <3>2
  <2>5. \A r \in Sessions : durable'[r] # None => file[r] # None
    BY <2>2, <2>3 DEF DiskInv
  <2>6. \A u \in Tasks : pc'[u] \in {"open", "write", "rename"} => durable'[session'[u]] < data'[u]
    <3> SUFFICES ASSUME NEW u \in Tasks, pc'[u] \in {"open", "write", "rename"}
                 PROVE  durable'[session'[u]] < data'[u]
      OBVIOUS
    <3>1. u # t /\ pc[u] \in {"open", "write", "rename"}
      BY <2>1
    <3>2. session[u] # session[t]
      BY <2>1, <3>1, AloneAtWork DEF Mutating, Undisturbed
    <3> QED
      BY <2>1, <2>3, <3>1, <3>2 DEF DiskInv, TypeOK
  <2> QED
    BY <2>1, <2>4, <2>5, <2>6 DEF DiskInv
<1>10. ASSUME NEW t \in Tasks, ReadFile(t), NotListing
      PROVE  DiskInv'
  BY <1>10 DEF TypeOK, Numbered, InodesOwned, Apart, SaveInv, DiskInv, Undisturbed, Saving, Mutating, ReadFile, Parsed
<1>11. ASSUME NEW t \in Tasks, LoadFails(t), NotListing
      PROVE  DiskInv'
  BY <1>11 DEF TypeOK, Numbered, InodesOwned, Apart, SaveInv, DiskInv, Undisturbed, Saving, Mutating, LoadFails
<1>12. ASSUME NEW t \in Tasks, InsertLoaded(t), NotListing
      PROVE  DiskInv'
  BY <1>12 DEF TypeOK, Numbered, InodesOwned, Apart, SaveInv, DiskInv, Undisturbed, Saving, Mutating, InsertLoaded
<1>13. ASSUME NEW t \in Tasks, RemoveCached(t), NotListing
      PROVE  DiskInv'
  BY <1>13 DEF TypeOK, Numbered, InodesOwned, Apart, SaveInv, DiskInv, Undisturbed, Saving, Mutating, RemoveCached
<1>14. ASSUME NEW t \in Tasks, RemoveFile(t), NotListing
      PROVE  DiskInv'
  BY <1>14 DEF TypeOK, Numbered, InodesOwned, Apart, SaveInv, DiskInv, Undisturbed, Saving, Mutating, RemoveFile
<1>15. ASSUME NEW t \in Tasks, RemoveFails(t), NotListing
      PROVE  DiskInv'
  BY <1>15 DEF TypeOK, Numbered, InodesOwned, Apart, SaveInv, DiskInv, Undisturbed, Saving, Mutating, RemoveFails
<1>16. ASSUME NEW t \in Tasks, DropAtLock(t), NotListing
      PROVE  DiskInv'
  BY <1>16 DEF TypeOK, Numbered, InodesOwned, Apart, SaveInv, DiskInv, Undisturbed, Saving, Mutating, DropAtLock
<1>17. ASSUME NEW t \in Tasks, StartList(t)
      PROVE  DiskInv'
  BY <1>17 DEF TypeOK, Numbered, InodesOwned, Apart, SaveInv, DiskInv, Undisturbed, Saving, Mutating, StartList
<1>18. ASSUME NEW t \in Tasks, ListEnds(t)
      PROVE  DiskInv'
  BY <1>18 DEF TypeOK, Numbered, InodesOwned, Apart, SaveInv, DiskInv, Undisturbed, Saving, Mutating, ListEnds
<1>19. ASSUME NEW t \in Tasks, NEW s \in Sessions, ListNext(t, s)
      PROVE  DiskInv'
  BY <1>19 DEF TypeOK, Numbered, InodesOwned, Apart, SaveInv, DiskInv, Undisturbed, Saving, Mutating, ListNext
<1>20. ASSUME Crash
      PROVE  DiskInv'
  BY <1>20 DEF TypeOK, Numbered, InodesOwned, Apart, SaveInv, DiskInv, Undisturbed, Saving, Mutating, Crash
<1>21. CASE UNCHANGED vars
  BY <1>21 DEF TypeOK, Numbered, InodesOwned, Apart, SaveInv, DiskInv, Undisturbed, Saving, Mutating, vars
<1> QED
  BY <1>1, <1>2, <1>3, <1>4, <1>5, <1>6, <1>7, <1>8, <1>9, <1>10, <1>11, <1>12, <1>13, <1>14, <1>15, <1>16, <1>17, <1>18, <1>19, <1>20, <1>21 DEF Next

\* Caches agree with files apart from overlaps.
LEMMA CacheInvNext ==
    ASSUME IInv, [Next]_vars
    PROVE  CacheInv'
<1> USE ConstantFacts DEF IInv, Goto, Done, MayStart, disk, listing
<1>1. ASSUME NEW t \in Tasks, NEW s \in Sessions, StartSave(t, s), NotListing
      PROVE  CacheInv'
  <2>1. /\ raced \subseteq raced' /\ behind' = behind /\ UNCHANGED <<file, content, cache>>
        /\ \A u \in Tasks : pc[u] = "insert" => pc'[u] = "insert" /\ session'[u] = session[u]
        /\ \A u \in Tasks : pc'[u] \in {"unlink", "insertLoaded"} =>
             pc'[u] = pc[u] /\ session'[u] = session[u] /\ data'[u] = data[u]
    BY <1>1 DEF TypeOK, StartSave
  <2>2. \A r \in Sessions : Coherent(r)' <=> Coherent(r)
    BY <2>1 DEF Coherent
  <2> QED
    BY <2>1, <2>2 DEF CacheInv
<1>2. ASSUME NEW t \in Tasks, NEW s \in Sessions, LoadMiss(t, s), NotListing
      PROVE  CacheInv'
  <2>1. /\ raced \subseteq raced' /\ behind' = behind /\ UNCHANGED <<file, content, cache>>
        /\ \A u \in Tasks : pc[u] = "insert" => pc'[u] = "insert" /\ session'[u] = session[u]
        /\ \A u \in Tasks : pc'[u] \in {"unlink", "insertLoaded"} =>
             pc'[u] = pc[u] /\ session'[u] = session[u] /\ data'[u] = data[u]
    BY <1>2 DEF TypeOK, LoadMiss
  <2>2. \A r \in Sessions : Coherent(r)' <=> Coherent(r)
    BY <2>1 DEF Coherent
  <2> QED
    BY <2>1, <2>2 DEF CacheInv
<1>3. ASSUME NEW t \in Tasks, NEW s \in Sessions, StartDelete(t, s), NotListing
      PROVE  CacheInv'
  <2>1. /\ raced \subseteq raced' /\ behind' = behind /\ UNCHANGED <<file, content, cache>>
        /\ \A u \in Tasks : pc[u] = "insert" => pc'[u] = "insert" /\ session'[u] = session[u]
        /\ \A u \in Tasks : pc'[u] \in {"unlink", "insertLoaded"} =>
             pc'[u] = pc[u] /\ session'[u] = session[u] /\ data'[u] = data[u]
    BY <1>3 DEF TypeOK, StartDelete
  <2>2. \A r \in Sessions : Coherent(r)' <=> Coherent(r)
    BY <2>1 DEF Coherent
  <2> QED
    BY <2>1, <2>2 DEF CacheInv
<1>4. ASSUME NEW t \in Tasks, OpenTmp(t), NotListing
      PROVE  CacheInv'
  <2>1. PICK i \in Inodes :
             /\ owner[i] = session[t] /\ i # file[session[t]]
             /\ content' = [content EXCEPT ![i] = {}]
    BY <1>4, OpenedInode
  <2>2. /\ UNCHANGED <<file, cache, session, data, raced, behind>>
        /\ pc[t] = "open" /\ pc' = [pc EXCEPT ![t] = "write"]
    BY <1>4 DEF OpenTmp
  <2>3. \A r \in Sessions : r \notin raced /\ file[r] # None =>
             file[r] # i /\ content'[file[r]] = content[file[r]]
    BY <2>1 DEF InodesOwned, TypeOK
  <2>4. \A r \in Sessions \ raced : Coherent(r)' <=> Coherent(r)
    BY <2>2, <2>3 DEF Coherent
  <2>5. \A u \in Tasks : pc'[u] \in {"unlink", "insertLoaded"} \/ pc[u] = "insert" =>
             pc'[u] = pc[u]
    BY <2>2 DEF TypeOK
  <2>6. ASSUME NEW u \in Tasks, session'[u] \notin raced'
        PROVE  /\ pc'[u] = "unlink" => cache'[session'[u]] = None
               /\ pc'[u] = "insertLoaded" => /\ file'[session'[u]] # None
                                             /\ content'[file'[session'[u]]] = {data'[u]}
    <3>1. session[u] \in Sessions
      BY DEF TypeOK
    <3> QED
      BY <2>2, <2>3, <2>5, <2>6, <3>1 DEF CacheInv
  <2> QED
    BY <2>2, <2>4, <2>5, <2>6 DEF CacheInv
<1>5. ASSUME NEW t \in Tasks, WriteTmp(t), NotListing
      PROVE  CacheInv'
  <2>1. PICK left \in {{}, content[fd[t]]} :
             content' = [content EXCEPT ![fd[t]] = left \cup {data[t]}]
    BY <1>5 DEF WriteTmp
  <2>2. /\ UNCHANGED <<file, cache, session, data, raced, behind>>
        /\ pc[t] = "write" /\ pc' = [pc EXCEPT ![t] = "rename"]
    BY <1>5 DEF WriteTmp
  <2>3. /\ fd[t] \in Inodes /\ owner[fd[t]] = session[t] /\ session[t] \in Sessions
        /\ session[t] \notin raced => tmp[session[t]] = fd[t]
    BY <2>2 DEF TypeOK, InodesOwned, SaveInv, Undisturbed
  <2>4. \A r \in Sessions : r \notin raced /\ file[r] # None =>
             file[r] # fd[t] /\ content'[file[r]] = content[file[r]]
    BY <2>1, <2>3 DEF InodesOwned, TypeOK
  <2>5. \A r \in Sessions \ raced : Coherent(r)' <=> Coherent(r)
    BY <2>2, <2>4 DEF Coherent
  <2>6. \A u \in Tasks : pc'[u] \in {"unlink", "insertLoaded"} \/ pc[u] = "insert" =>
             pc'[u] = pc[u]
    BY <2>2 DEF TypeOK
  <2>7. ASSUME NEW u \in Tasks, session'[u] \notin raced'
        PROVE  /\ pc'[u] = "unlink" => cache'[session'[u]] = None
               /\ pc'[u] = "insertLoaded" => /\ file'[session'[u]] # None
                                             /\ content'[file'[session'[u]]] = {data'[u]}
    <3>1. session[u] \in Sessions
      BY DEF TypeOK
    <3> QED
      BY <2>2, <2>4, <2>6, <2>7, <3>1 DEF CacheInv
  <2> QED
    BY <2>2, <2>5, <2>6, <2>7 DEF CacheInv
<1>6. ASSUME NEW t \in Tasks, WriteFails(t), NotListing
      PROVE  CacheInv'
  <2>1. /\ raced' = raced /\ behind' = behind /\ UNCHANGED <<file, content, cache>>
        /\ \A u \in Tasks : pc[u] = "insert" => pc'[u] = "insert" /\ session'[u] = session[u]
        /\ \A u \in Tasks : pc'[u] \in {"unlink", "insertLoaded"} =>
             pc'[u] = pc[u] /\ session'[u] = session[u] /\ data'[u] = data[u]
    BY <1>6 DEF TypeOK, WriteFails
  <2>2. \A s \in Sessions : Coherent(s)' <=> Coherent(s)
    BY <2>1 DEF Coherent
  <2> QED
    BY <2>1, <2>2 DEF CacheInv
<1>7. ASSUME NEW t \in Tasks, RenameTmp(t), NotListing
      PROVE  CacheInv'
  <2>1. /\ raced' = raced /\ behind' = behind /\ pc[t] = "rename" /\ pc'[t] = "insert" /\ session'[t] = session[t]
        /\ \A u \in Tasks \ {t} : /\ pc'[u] = pc[u] /\ session'[u] = session[u]
                                  /\ data'[u] = data[u]
        /\ file' = [file EXCEPT ![session[t]] = tmp[session[t]]] /\ UNCHANGED <<content, cache>>
    BY <1>7 DEF TypeOK, RenameTmp
  <2>2. session[t] \in Sessions
    BY DEF TypeOK
  <2>3. ASSUME NEW s \in Sessions \ (raced' \cup behind')
        PROVE  Coherent(s)' \/ \E u \in Tasks : session'[u] = s /\ pc'[u] = "insert"
    <3>1. CASE s = session[t]
      BY <2>1, <3>1
    <3>2. CASE s # session[t]
      <4>1. Coherent(s) \/ \E u \in Tasks : session[u] = s /\ pc[u] = "insert"
        BY <2>1, <2>3 DEF CacheInv
      <4>2. Coherent(s) => Coherent(s)'
        BY <2>1, <2>2, <2>3, <3>2 DEF Coherent, TypeOK
      <4>3. ASSUME NEW u \in Tasks, session[u] = s, pc[u] = "insert"
            PROVE  session'[u] = s /\ pc'[u] = "insert"
        BY <2>1, <3>2, <4>3
      <4> QED
        BY <4>1, <4>2, <4>3
    <3> QED
      BY <3>1, <3>2
  <2>4. ASSUME NEW u \in Tasks, session'[u] \notin raced'
        PROVE  /\ pc'[u] = "unlink" => cache'[session'[u]] = None
               /\ pc'[u] = "insertLoaded" => /\ file'[session'[u]] # None
                                             /\ content'[file'[session'[u]]] = {data'[u]}
    <3>1. CASE u = t
      BY <2>1, <3>1
    <3>2. CASE u # t /\ pc[u] \in {"unlink", "insertLoaded"}
      <4>1. session[u] # session[t]
        BY <2>1, <2>4, <3>2 DEF Apart, Busy
      <4> QED
        BY <2>1, <2>2, <2>4, <3>2, <4>1 DEF CacheInv, TypeOK
    <3>3. CASE u # t /\ pc[u] \notin {"unlink", "insertLoaded"}
      BY <2>1, <3>3
    <3> QED
      BY <3>1, <3>2, <3>3
  <2> QED
    BY <2>3, <2>4 DEF CacheInv
<1>8. ASSUME NEW t \in Tasks, RenameFails(t), NotListing
      PROVE  CacheInv'
  <2>1. /\ raced' = raced /\ behind' = behind /\ UNCHANGED <<file, content, cache>>
        /\ \A u \in Tasks : pc[u] = "insert" => pc'[u] = "insert" /\ session'[u] = session[u]
        /\ \A u \in Tasks : pc'[u] \in {"unlink", "insertLoaded"} =>
             pc'[u] = pc[u] /\ session'[u] = session[u] /\ data'[u] = data[u]
    BY <1>8 DEF TypeOK, RenameFails
  <2>2. \A s \in Sessions : Coherent(s)' <=> Coherent(s)
    BY <2>1 DEF Coherent
  <2> QED
    BY <2>1, <2>2 DEF CacheInv
<1>9. ASSUME NEW t \in Tasks, InsertSaved(t), NotListing
      PROVE  CacheInv'
  <2>1. /\ raced' = raced /\ behind' = behind \ {session[t]} /\ pc[t] = "insert" /\ pc'[t] = "idle"
        /\ \A u \in Tasks \ {t} : /\ pc'[u] = pc[u] /\ session'[u] = session[u]
                                  /\ data'[u] = data[u]
        /\ cache' = [cache EXCEPT ![session[t]] = data[t]] /\ UNCHANGED <<file, content>>
    BY <1>9 DEF TypeOK, InsertSaved
  <2>2. session[t] \in Sessions
    BY DEF TypeOK
  <2>3. ASSUME NEW s \in Sessions \ (raced' \cup behind')
        PROVE  Coherent(s)' \/ \E u \in Tasks : session'[u] = s /\ pc'[u] = "insert"
    <3>1. CASE s = session[t]
      <4>1. file[session[t]] # None /\ content[file[session[t]]] = {data[t]}
        BY <2>1, <2>3, <3>1 DEF SaveInv, Undisturbed
      <4> QED
        BY <2>1, <2>2, <3>1, <4>1 DEF Coherent, TypeOK
    <3>2. CASE s # session[t]
      <4>1. Coherent(s) \/ \E u \in Tasks : session[u] = s /\ pc[u] = "insert"
        BY <2>1, <2>3 DEF CacheInv
      <4>2. Coherent(s) => Coherent(s)'
        BY <2>1, <2>2, <2>3, <3>2 DEF Coherent, TypeOK
      <4>3. ASSUME NEW u \in Tasks, session[u] = s, pc[u] = "insert"
            PROVE  session'[u] = s /\ pc'[u] = "insert"
        BY <2>1, <3>2, <4>3
      <4> QED
        BY <4>1, <4>2, <4>3
    <3> QED
      BY <3>1, <3>2
  <2>4. ASSUME NEW u \in Tasks, session'[u] \notin raced'
        PROVE  /\ pc'[u] = "unlink" => cache'[session'[u]] = None
               /\ pc'[u] = "insertLoaded" => /\ file'[session'[u]] # None
                                             /\ content'[file'[session'[u]]] = {data'[u]}
    <3>1. CASE u = t
      BY <2>1, <3>1
    <3>2. CASE u # t /\ pc[u] \in {"unlink", "insertLoaded"}
      <4>1. session[u] # session[t]
        BY <2>1, <2>4, <3>2 DEF Apart, Busy
      <4> QED
        BY <2>1, <2>2, <2>4, <3>2, <4>1 DEF CacheInv, TypeOK
    <3>3. CASE u # t /\ pc[u] \notin {"unlink", "insertLoaded"}
      BY <2>1, <3>3
    <3> QED
      BY <3>1, <3>2, <3>3
  <2> QED
    BY <2>3, <2>4 DEF CacheInv
<1>10. ASSUME NEW t \in Tasks, ReadFile(t), NotListing
      PROVE  CacheInv'
  <2>1. /\ raced' = raced /\ behind' = behind /\ UNCHANGED <<file, content, cache, session>>
        /\ pc[t] = "read" /\ pc'[t] = "insertLoaded"
        /\ \A u \in Tasks \ {t} : pc'[u] = pc[u] /\ data'[u] = data[u]
    BY <1>10 DEF TypeOK, ReadFile
  <2>2. file[session[t]] # None /\ content[file[session[t]]] = {data'[t]}
    BY <1>10 DEF TypeOK, ReadFile, Parsed
  <2>3. \A s \in Sessions : Coherent(s)' <=> Coherent(s)
    BY <2>1 DEF Coherent
  <2>4. \A u \in Tasks : session'[u] \notin raced' =>
         /\ pc'[u] = "unlink" => cache'[session'[u]] = None
         /\ pc'[u] = "insertLoaded" => /\ file'[session'[u]] # None
                                       /\ content'[file'[session'[u]]] = {data'[u]}
    BY <2>1, <2>2 DEF CacheInv
  <2>5. \A u \in Tasks : pc[u] = "insert" => pc'[u] = "insert"
    BY <2>1
  <2> QED
    BY <2>1, <2>3, <2>4, <2>5 DEF CacheInv
<1>11. ASSUME NEW t \in Tasks, LoadFails(t), NotListing
      PROVE  CacheInv'
  <2>1. /\ raced \subseteq raced' /\ behind' = behind /\ UNCHANGED <<file, content, cache>>
        /\ \A u \in Tasks : pc[u] = "insert" => pc'[u] = "insert" /\ session'[u] = session[u]
        /\ \A u \in Tasks : pc'[u] \in {"unlink", "insertLoaded"} =>
             pc'[u] = pc[u] /\ session'[u] = session[u] /\ data'[u] = data[u]
    BY <1>11 DEF TypeOK, LoadFails
  <2>2. \A r \in Sessions : Coherent(r)' <=> Coherent(r)
    BY <2>1 DEF Coherent
  <2> QED
    BY <2>1, <2>2 DEF CacheInv
<1>12. ASSUME NEW t \in Tasks, InsertLoaded(t), NotListing
      PROVE  CacheInv'
  <2>1. /\ raced' = raced /\ behind' = behind /\ pc[t] = "insertLoaded" /\ pc'[t] = "idle"
        /\ \A u \in Tasks \ {t} : /\ pc'[u] = pc[u] /\ session'[u] = session[u]
                                  /\ data'[u] = data[u]
        /\ cache' = [cache EXCEPT ![session[t]] = data[t]] /\ UNCHANGED <<file, content>>
    BY <1>12 DEF TypeOK, InsertLoaded
  <2>2. session[t] \in Sessions
    BY DEF TypeOK
  <2>3. ASSUME NEW s \in Sessions \ (raced' \cup behind')
        PROVE  Coherent(s)' \/ \E u \in Tasks : session'[u] = s /\ pc'[u] = "insert"
    <3>1. CASE s = session[t]
      <4>1. file[session[t]] # None /\ content[file[session[t]]] = {data[t]}
        BY <2>1, <2>3, <3>1 DEF CacheInv
      <4> QED
        BY <2>1, <2>2, <3>1, <4>1 DEF Coherent, TypeOK
    <3>2. CASE s # session[t]
      <4>1. Coherent(s) \/ \E u \in Tasks : session[u] = s /\ pc[u] = "insert"
        BY <2>1, <2>3 DEF CacheInv
      <4>2. Coherent(s) => Coherent(s)'
        BY <2>1, <2>2, <2>3, <3>2 DEF Coherent, TypeOK
      <4>3. ASSUME NEW u \in Tasks, session[u] = s, pc[u] = "insert"
            PROVE  session'[u] = s /\ pc'[u] = "insert"
        BY <2>1, <3>2, <4>3
      <4> QED
        BY <4>1, <4>2, <4>3
    <3> QED
      BY <3>1, <3>2
  <2>4. ASSUME NEW u \in Tasks, session'[u] \notin raced'
        PROVE  /\ pc'[u] = "unlink" => cache'[session'[u]] = None
               /\ pc'[u] = "insertLoaded" => /\ file'[session'[u]] # None
                                             /\ content'[file'[session'[u]]] = {data'[u]}
    <3>1. CASE u = t
      BY <2>1, <3>1
    <3>2. CASE u # t /\ pc[u] \in {"unlink", "insertLoaded"}
      <4>1. session[u] # session[t]
        BY <2>1, <2>4, <3>2 DEF Apart, Busy
      <4> QED
        BY <2>1, <2>2, <2>4, <3>2, <4>1 DEF CacheInv, TypeOK
    <3>3. CASE u # t /\ pc[u] \notin {"unlink", "insertLoaded"}
      BY <2>1, <3>3
    <3> QED
      BY <3>1, <3>2, <3>3
  <2> QED
    BY <2>3, <2>4 DEF CacheInv
<1>13. ASSUME NEW t \in Tasks, RemoveCached(t), NotListing
      PROVE  CacheInv'
  <2>1. /\ raced' = raced /\ behind' = behind \ {session[t]} /\ UNCHANGED <<file, content>>
        /\ pc[t] = "remove" /\ pc' = [pc EXCEPT ![t] = "unlink"] /\ UNCHANGED <<session, data>>
        /\ cache' = [cache EXCEPT ![session[t]] = None]
    BY <1>13 DEF RemoveCached
  <2>2. session[t] \in Sessions
    BY DEF TypeOK
  <2>3. ASSUME NEW s \in Sessions \ (raced' \cup behind')
        PROVE  Coherent(s)' \/ \E u \in Tasks : session'[u] = s /\ pc'[u] = "insert"
    <3>1. CASE s = session[t]
      BY <2>1, <2>2, <3>1 DEF Coherent, TypeOK
    <3>2. CASE s # session[t]
      <4>1. Coherent(s) \/ \E u \in Tasks : session[u] = s /\ pc[u] = "insert"
        BY <2>1, <2>3, <3>2 DEF CacheInv
      <4>2. Coherent(s) => Coherent(s)'
        BY <2>1, <2>2, <2>3, <3>2 DEF Coherent, TypeOK
      <4>3. ASSUME NEW u \in Tasks, session[u] = s, pc[u] = "insert"
            PROVE  session'[u] = s /\ pc'[u] = "insert"
        BY <2>1, <3>2, <4>3 DEF TypeOK
      <4> QED
        BY <4>1, <4>2, <4>3
    <3> QED
      BY <3>1, <3>2
  <2>4. ASSUME NEW u \in Tasks, session'[u] \notin raced'
        PROVE  /\ pc'[u] = "unlink" => cache'[session'[u]] = None
               /\ pc'[u] = "insertLoaded" => /\ file'[session'[u]] # None
                                             /\ content'[file'[session'[u]]] = {data'[u]}
    BY <2>1, <2>2, <2>4 DEF CacheInv, TypeOK
  <2> QED
    BY <2>3, <2>4 DEF CacheInv
<1>14. ASSUME NEW t \in Tasks, RemoveFile(t), NotListing
      PROVE  CacheInv'
  <2>1. /\ raced' = raced /\ behind' = behind /\ pc[t] = "unlink" /\ pc'[t] = "idle"
        /\ \A u \in Tasks \ {t} : /\ pc'[u] = pc[u] /\ session'[u] = session[u]
                                  /\ data'[u] = data[u]
        /\ file' = [file EXCEPT ![session[t]] = None] /\ UNCHANGED <<cache, content>>
    BY <1>14 DEF TypeOK, RemoveFile
  <2>2. session[t] \in Sessions
    BY DEF TypeOK
  <2>3. ASSUME NEW s \in Sessions \ (raced' \cup behind')
        PROVE  Coherent(s)' \/ \E u \in Tasks : session'[u] = s /\ pc'[u] = "insert"
    <3>1. CASE s = session[t]
      <4>1. cache[session[t]] = None
        BY <2>1, <2>3, <3>1 DEF CacheInv
      <4> QED
        BY <2>1, <3>1, <4>1 DEF Coherent
    <3>2. CASE s # session[t]
      <4>1. Coherent(s) \/ \E u \in Tasks : session[u] = s /\ pc[u] = "insert"
        BY <2>1, <2>3 DEF CacheInv
      <4>2. Coherent(s) => Coherent(s)'
        BY <2>1, <2>2, <2>3, <3>2 DEF Coherent, TypeOK
      <4>3. ASSUME NEW u \in Tasks, session[u] = s, pc[u] = "insert"
            PROVE  session'[u] = s /\ pc'[u] = "insert"
        BY <2>1, <3>2, <4>3
      <4> QED
        BY <4>1, <4>2, <4>3
    <3> QED
      BY <3>1, <3>2
  <2>4. ASSUME NEW u \in Tasks, session'[u] \notin raced'
        PROVE  /\ pc'[u] = "unlink" => cache'[session'[u]] = None
               /\ pc'[u] = "insertLoaded" => /\ file'[session'[u]] # None
                                             /\ content'[file'[session'[u]]] = {data'[u]}
    <3>1. CASE u = t
      BY <2>1, <3>1
    <3>2. CASE u # t /\ pc[u] \in {"unlink", "insertLoaded"}
      <4>1. session[u] # session[t]
        BY <2>1, <2>4, <3>2 DEF Apart, Busy
      <4> QED
        BY <2>1, <2>2, <2>4, <3>2, <4>1 DEF CacheInv, TypeOK
    <3>3. CASE u # t /\ pc[u] \notin {"unlink", "insertLoaded"}
      BY <2>1, <3>3
    <3> QED
      BY <3>1, <3>2, <3>3
  <2> QED
    BY <2>3, <2>4 DEF CacheInv
<1>15. ASSUME NEW t \in Tasks, RemoveFails(t), NotListing
      PROVE  CacheInv'
  <2>1. /\ raced \subseteq raced' /\ behind' = behind /\ UNCHANGED <<file, content, cache>>
        /\ \A u \in Tasks : pc[u] = "insert" => pc'[u] = "insert" /\ session'[u] = session[u]
        /\ \A u \in Tasks : pc'[u] \in {"unlink", "insertLoaded"} =>
             pc'[u] = pc[u] /\ session'[u] = session[u] /\ data'[u] = data[u]
    BY <1>15 DEF TypeOK, RemoveFails
  <2>2. \A r \in Sessions : Coherent(r)' <=> Coherent(r)
    BY <2>1 DEF Coherent
  <2> QED
    BY <2>1, <2>2 DEF CacheInv
<1>16. ASSUME NEW t \in Tasks, DropAtLock(t), NotListing
      PROVE  CacheInv'
  <2>1. /\ raced' = raced /\ UNCHANGED <<file, content, cache>> /\ pc'[t] = "idle"
        /\ behind' = IF pc[t] = "insert" /\ cache[session[t]] # None
                     THEN behind \cup {session[t]} ELSE behind
        /\ \A u \in Tasks \ {t} : /\ pc'[u] = pc[u] /\ session'[u] = session[u]
                                  /\ data'[u] = data[u]
    BY <1>16 DEF TypeOK, DropAtLock
  <2>2. \A s \in Sessions : Coherent(s)' <=> Coherent(s)
    BY <2>1 DEF Coherent
  <2>3. ASSUME NEW s \in Sessions \ (raced' \cup behind')
        PROVE  Coherent(s)' \/ \E u \in Tasks : session'[u] = s /\ pc'[u] = "insert"
    <3>1. CASE session[t] = s /\ pc[t] = "insert"
      <4>1. cache[s] = None
        BY <2>1, <2>3, <3>1
      <4> QED
        BY <2>2, <4>1 DEF Coherent
    <3>2. CASE ~(session[t] = s /\ pc[t] = "insert")
      <4>1. Coherent(s) \/ \E u \in Tasks : session[u] = s /\ pc[u] = "insert"
        BY <2>1, <2>3 DEF CacheInv
      <4> QED
        BY <2>1, <2>2, <3>2, <4>1
    <3> QED
      BY <3>1, <3>2
  <2>4. \A u \in Tasks : pc'[u] \in {"unlink", "insertLoaded"} =>
             pc'[u] = pc[u] /\ session'[u] = session[u] /\ data'[u] = data[u]
    BY <2>1
  <2> QED
    BY <2>1, <2>3, <2>4 DEF CacheInv
<1>17. ASSUME NEW t \in Tasks, StartList(t)
      PROVE  CacheInv'
  <2>1. /\ raced' = raced /\ behind' = behind /\ UNCHANGED <<file, content, cache>>
        /\ \A u \in Tasks : pc[u] = "insert" => pc'[u] = "insert" /\ session'[u] = session[u]
        /\ \A u \in Tasks : pc'[u] \in {"unlink", "insertLoaded"} =>
             pc'[u] = pc[u] /\ session'[u] = session[u] /\ data'[u] = data[u]
    BY <1>17 DEF TypeOK, StartList
  <2>2. \A s \in Sessions : Coherent(s)' <=> Coherent(s)
    BY <2>1 DEF Coherent
  <2> QED
    BY <2>1, <2>2 DEF CacheInv
<1>18. ASSUME NEW t \in Tasks, ListEnds(t)
      PROVE  CacheInv'
  <2>1. /\ raced' = raced /\ behind' = behind /\ UNCHANGED <<file, content, cache>>
        /\ \A u \in Tasks : pc[u] = "insert" => pc'[u] = "insert" /\ session'[u] = session[u]
        /\ \A u \in Tasks : pc'[u] \in {"unlink", "insertLoaded"} =>
             pc'[u] = pc[u] /\ session'[u] = session[u] /\ data'[u] = data[u]
    BY <1>18 DEF TypeOK, ListEnds
  <2>2. \A s \in Sessions : Coherent(s)' <=> Coherent(s)
    BY <2>1 DEF Coherent
  <2> QED
    BY <2>1, <2>2 DEF CacheInv
<1>19. ASSUME NEW t \in Tasks, NEW s \in Sessions, ListNext(t, s)
      PROVE  CacheInv'
  <2>1. /\ raced' = raced /\ behind' = behind /\ UNCHANGED <<file, content, cache>>
        /\ \A u \in Tasks : pc[u] = "insert" => pc'[u] = "insert" /\ session'[u] = session[u]
        /\ \A u \in Tasks : pc'[u] \in {"unlink", "insertLoaded"} =>
             pc'[u] = pc[u] /\ session'[u] = session[u] /\ data'[u] = data[u]
    BY <1>19 DEF TypeOK, ListNext
  <2>2. \A r \in Sessions : Coherent(r)' <=> Coherent(r)
    BY <2>1 DEF Coherent
  <2> QED
    BY <2>1, <2>2 DEF CacheInv
<1>20. ASSUME Crash
      PROVE  CacheInv'
  BY <1>20 DEF TypeOK, Numbered, InodesOwned, Apart, SaveInv, CacheInv, Undisturbed, Saving, Busy, Coherent, Crash
<1>21. CASE UNCHANGED vars
  <2>1. \A s \in Sessions : Coherent(s)' <=> Coherent(s)
    BY <1>21 DEF Coherent, vars
  <2> QED
    BY <1>21, <2>1 DEF CacheInv, vars
<1> QED
  BY <1>1, <1>2, <1>3, <1>4, <1>5, <1>6, <1>7, <1>8, <1>9, <1>10, <1>11, <1>12, <1>13, <1>14, <1>15, <1>16, <1>17, <1>18, <1>19, <1>20, <1>21 DEF Next

\* Lists miss and make up nothing.
LEMMA ListInvNext ==
    ASSUME IInv, [Next]_vars
    PROVE  ListInv'
<1> USE ConstantFacts DEF IInv, Goto, Done, MayStart, disk, listing
<1>1. ASSUME NEW t \in Tasks, NEW s \in Sessions, StartSave(t, s), NotListing
      PROVE  ListInv'
  BY <1>1 DEF TypeOK, DiskInv, ListInv, StartSave, NotListing
<1>2. ASSUME NEW t \in Tasks, NEW s \in Sessions, LoadMiss(t, s), NotListing
      PROVE  ListInv'
  BY <1>2 DEF TypeOK, DiskInv, ListInv, LoadMiss, NotListing
<1>3. ASSUME NEW t \in Tasks, NEW s \in Sessions, StartDelete(t, s), NotListing
      PROVE  ListInv'
  BY <1>3 DEF TypeOK, DiskInv, ListInv, StartDelete, NotListing
<1>4. ASSUME NEW t \in Tasks, OpenTmp(t), NotListing
      PROVE  ListInv'
  BY <1>4 DEF TypeOK, DiskInv, ListInv, OpenTmp, NotListing
<1>5. ASSUME NEW t \in Tasks, WriteTmp(t), NotListing
      PROVE  ListInv'
  BY <1>5 DEF TypeOK, DiskInv, ListInv, WriteTmp, NotListing
<1>6. ASSUME NEW t \in Tasks, WriteFails(t), NotListing
      PROVE  ListInv'
  BY <1>6 DEF TypeOK, DiskInv, ListInv, WriteFails, NotListing
<1>7. ASSUME NEW t \in Tasks, RenameTmp(t), NotListing
      PROVE  ListInv'
  BY <1>7 DEF TypeOK, DiskInv, ListInv, RenameTmp, NotListing
<1>8. ASSUME NEW t \in Tasks, RenameFails(t), NotListing
      PROVE  ListInv'
  BY <1>8 DEF TypeOK, DiskInv, ListInv, RenameFails, NotListing
<1>9. ASSUME NEW t \in Tasks, InsertSaved(t), NotListing
      PROVE  ListInv'
  BY <1>9 DEF TypeOK, DiskInv, ListInv, InsertSaved, NotListing
<1>10. ASSUME NEW t \in Tasks, ReadFile(t), NotListing
      PROVE  ListInv'
  BY <1>10 DEF TypeOK, DiskInv, ListInv, ReadFile, NotListing, Parsed
<1>11. ASSUME NEW t \in Tasks, LoadFails(t), NotListing
      PROVE  ListInv'
  BY <1>11 DEF TypeOK, DiskInv, ListInv, LoadFails, NotListing
<1>12. ASSUME NEW t \in Tasks, InsertLoaded(t), NotListing
      PROVE  ListInv'
  BY <1>12 DEF TypeOK, DiskInv, ListInv, InsertLoaded, NotListing
<1>13. ASSUME NEW t \in Tasks, RemoveCached(t), NotListing
      PROVE  ListInv'
  BY <1>13 DEF TypeOK, DiskInv, ListInv, RemoveCached, NotListing
<1>14. ASSUME NEW t \in Tasks, RemoveFile(t), NotListing
      PROVE  ListInv'
  BY <1>14 DEF TypeOK, DiskInv, ListInv, RemoveFile, NotListing
<1>15. ASSUME NEW t \in Tasks, RemoveFails(t), NotListing
      PROVE  ListInv'
  BY <1>15 DEF TypeOK, DiskInv, ListInv, RemoveFails, NotListing
<1>16. ASSUME NEW t \in Tasks, DropAtLock(t), NotListing
      PROVE  ListInv'
  BY <1>16 DEF TypeOK, DiskInv, ListInv, DropAtLock, NotListing
<1>17. ASSUME NEW t \in Tasks, StartList(t)
      PROVE  ListInv'
  BY <1>17 DEF TypeOK, DiskInv, ListInv, StartList
<1>18. ASSUME NEW t \in Tasks, ListEnds(t)
      PROVE  ListInv'
  BY <1>18 DEF TypeOK, DiskInv, ListInv, ListEnds
<1>19. ASSUME NEW t \in Tasks, NEW s \in Sessions, ListNext(t, s)
      PROVE  ListInv'
  BY <1>19, ListedName DEF TypeOK, DiskInv, ListInv, ListNext
<1>20. ASSUME Crash
      PROVE  ListInv'
  BY <1>20 DEF TypeOK, DiskInv, ListInv, Crash
<1>21. CASE UNCHANGED vars
  BY <1>21 DEF TypeOK, DiskInv, ListInv, vars
<1> QED
  BY <1>1, <1>2, <1>3, <1>4, <1>5, <1>6, <1>7, <1>8, <1>9, <1>10, <1>11, <1>12, <1>13, <1>14, <1>15, <1>16, <1>17, <1>18, <1>19, <1>20, <1>21 DEF Next

\* Data stays with the session it was saved for.
LEMMA OwnDataNext ==
    ASSUME IInv, OwnData, [Next]_vars
    PROVE  OwnData'
<1> USE ConstantFacts DEF IInv, Goto, Done, MayStart, disk, listing
<1>1. ASSUME NEW t \in Tasks, NEW s \in Sessions, StartSave(t, s), NotListing
      PROVE  OwnData'
  BY <1>1 DEF TypeOK, Numbered, InodesOwned, OwnData, Saving, StartSave
<1>2. ASSUME NEW t \in Tasks, NEW s \in Sessions, LoadMiss(t, s), NotListing
      PROVE  OwnData'
  BY <1>2 DEF TypeOK, Numbered, InodesOwned, OwnData, Saving, LoadMiss
<1>3. ASSUME NEW t \in Tasks, NEW s \in Sessions, StartDelete(t, s), NotListing
      PROVE  OwnData'
  BY <1>3 DEF TypeOK, Numbered, InodesOwned, OwnData, Saving, StartDelete
<1>4. ASSUME NEW t \in Tasks, OpenTmp(t), NotListing
      PROVE  OwnData'
  BY <1>4 DEF TypeOK, Numbered, InodesOwned, OwnData, Saving, OpenTmp
<1>5. ASSUME NEW t \in Tasks, WriteTmp(t), NotListing
      PROVE  OwnData'
  BY <1>5 DEF TypeOK, Numbered, InodesOwned, OwnData, Saving, WriteTmp
<1>6. ASSUME NEW t \in Tasks, WriteFails(t), NotListing
      PROVE  OwnData'
  BY <1>6 DEF TypeOK, Numbered, InodesOwned, OwnData, Saving, WriteFails
<1>7. ASSUME NEW t \in Tasks, RenameTmp(t), NotListing
      PROVE  OwnData'
  BY <1>7 DEF TypeOK, Numbered, InodesOwned, OwnData, Saving, RenameTmp
<1>8. ASSUME NEW t \in Tasks, RenameFails(t), NotListing
      PROVE  OwnData'
  BY <1>8 DEF TypeOK, Numbered, InodesOwned, OwnData, Saving, RenameFails
<1>9. ASSUME NEW t \in Tasks, InsertSaved(t), NotListing
      PROVE  OwnData'
  BY <1>9 DEF TypeOK, Numbered, InodesOwned, OwnData, Saving, InsertSaved
<1>10. ASSUME NEW t \in Tasks, ReadFile(t), NotListing
      PROVE  OwnData'
  BY <1>10 DEF TypeOK, Numbered, InodesOwned, OwnData, Saving, ReadFile, Parsed
<1>11. ASSUME NEW t \in Tasks, LoadFails(t), NotListing
      PROVE  OwnData'
  BY <1>11 DEF TypeOK, Numbered, InodesOwned, OwnData, Saving, LoadFails
<1>12. ASSUME NEW t \in Tasks, InsertLoaded(t), NotListing
      PROVE  OwnData'
  BY <1>12 DEF TypeOK, Numbered, InodesOwned, OwnData, Saving, InsertLoaded
<1>13. ASSUME NEW t \in Tasks, RemoveCached(t), NotListing
      PROVE  OwnData'
  BY <1>13 DEF TypeOK, Numbered, InodesOwned, OwnData, Saving, RemoveCached
<1>14. ASSUME NEW t \in Tasks, RemoveFile(t), NotListing
      PROVE  OwnData'
  BY <1>14 DEF TypeOK, Numbered, InodesOwned, OwnData, Saving, RemoveFile
<1>15. ASSUME NEW t \in Tasks, RemoveFails(t), NotListing
      PROVE  OwnData'
  BY <1>15 DEF TypeOK, Numbered, InodesOwned, OwnData, Saving, RemoveFails
<1>16. ASSUME NEW t \in Tasks, DropAtLock(t), NotListing
      PROVE  OwnData'
  BY <1>16 DEF TypeOK, Numbered, InodesOwned, OwnData, Saving, DropAtLock
<1>17. ASSUME NEW t \in Tasks, StartList(t)
      PROVE  OwnData'
  BY <1>17 DEF TypeOK, Numbered, InodesOwned, OwnData, Saving, StartList
<1>18. ASSUME NEW t \in Tasks, ListEnds(t)
      PROVE  OwnData'
  BY <1>18 DEF TypeOK, Numbered, InodesOwned, OwnData, Saving, ListEnds
<1>19. ASSUME NEW t \in Tasks, NEW s \in Sessions, ListNext(t, s)
      PROVE  OwnData'
  BY <1>19 DEF TypeOK, Numbered, InodesOwned, OwnData, Saving, ListNext
<1>20. ASSUME Crash
      PROVE  OwnData'
  BY <1>20 DEF TypeOK, OwnData, Crash
<1>21. CASE UNCHANGED vars
  BY <1>21 DEF OwnData, vars
<1> QED
  BY <1>1, <1>2, <1>3, <1>4, <1>5, <1>6, <1>7, <1>8, <1>9, <1>10, <1>11, <1>12, <1>13, <1>14, <1>15, <1>16, <1>17, <1>18, <1>19, <1>20, <1>21 DEF Next

-------------------------------------------------------------------------------
\* The store starts with empty directories and nothing under way.
LEMMA InitIInv == Init => IInv
<1> USE ConstantFacts
<1> SUFFICES ASSUME Init
             PROVE  IInv
  OBVIOUS
<1>1. TypeOK
  BY DEF Init, TypeOK
<1>2. Numbered /\ InodesOwned /\ Apart
  BY DEF Init, Numbered, InodesOwned, Apart, Saving, Busy, Mutating
<1>3. SaveInv /\ DiskInv /\ CacheInv /\ ListInv
  BY DEF Init, SaveInv, DiskInv, CacheInv, ListInv, Coherent
<1> QED
  BY <1>1, <1>2, <1>3 DEF IInv

\* The parts of the invariant together are inductive.
LEMMA NextIInv == IInv /\ [Next]_vars => IInv'
  BY TypeOKNext, NumberedNext, InodesOwnedNext, ApartNext, SaveInvNext, DiskInvNext,
     CacheInvNext, ListInvNext DEF IInv

\* The inductive invariant holds in every state, whether or not the callers keep
\* their saves apart.
THEOREM IInvAlways == Spec => []IInv
  BY InitIInv, NextIInv, PTL DEF Spec

\* The variables keep their types: a call carries a save and an open file exactly
\* where its next step needs them.
THEOREM TypeCorrect == Spec => []TypeOK
<1>1. IInv => TypeOK
  BY DEF IInv
<1> QED
  BY <1>1, IInvAlways, PTL

\* A session's file is one complete document at every moment, whatever crashes or
\* fails (save), for callers that keep a session's saves and deletes apart.
THEOREM FilesComplete ==
    ASSUME SerialSaves
    PROVE  Spec => []FileComplete
<1>1. IInv => FileComplete
  <2> SUFFICES ASSUME IInv, NEW s \in Sessions, file[s] # None
               PROVE  Cardinality(content[file[s]]) = 1
    BY DEF FileComplete
  <2>1. PICK v : content[file[s]] = {v}
    BY DEF IInv, DiskInv
  <2> QED
    BY <2>1, FS_Singleton
<1> QED
  BY <1>1, IInvAlways, PTL

\* What a save has acknowledged stays on disk, in that version or a later one,
\* until it is deleted (save, delete), for such callers.
THEOREM AckedAlways ==
    ASSUME SerialSaves
    PROVE  Spec => []AckedSurvives
<1>1. IInv => AckedSurvives
  <2> SUFFICES ASSUME IInv, NEW s \in Sessions, durable[s] # None
               PROVE  /\ file[s] # None
                      /\ \E v \in durable[s]..saves : content[file[s]] = {v}
    BY DEF AckedSurvives
  <2>1. file[s] # None
    BY DEF IInv, DiskInv
  <2>2. PICK v \in 1..saves : content[file[s]] = {v} /\ durable[s] <= v
    BY <2>1 DEF IInv, DiskInv
  <2>3. durable[s] \in Nat /\ saves \in Nat
    BY ConstantFacts DEF IInv, TypeOK
  <2>4. v \in durable[s]..saves
    BY <2>2, <2>3
  <2> QED
    BY <2>1, <2>2, <2>4
<1> QED
  BY <1>1, IInvAlways, PTL

\* list_sessions misses no session that was acknowledged all the while, and lists
\* no id but one whose session had a file while it was listing, for such callers and
\* ids that do not end in the suffix: list_sessions trims that off as well.
THEOREM ListsFaithful ==
    ASSUME SerialSaves, PlainIds
    PROVE  Spec => []ListFaithful
<1>1. \A s \in Sessions : ListedAs(s) = s
  BY StoreAssumption DEF PlainIds, ListedAs, Valid, Names
<1>2. IInv => ListFaithful
  <2> SUFFICES ASSUME IInv, NEW t \in Tasks, pc[t] = "list", todo[t] = {}
               PROVE  lasting[t] \subseteq found[t] /\ found[t] \subseteq sighted[t]
    BY DEF ListFaithful
  <2>1. lasting[t] \subseteq Sessions /\ sighted[t] \subseteq Sessions
    BY DEF IInv, TypeOK
  <2>2. \A s \in lasting[t] : ListedAs(s) \in found[t]
    BY DEF IInv, ListInv
  <2>3. found[t] \subseteq {ListedAs(s) : s \in sighted[t]}
    BY DEF IInv, ListInv
  <2> QED
    BY <1>1, <2>1, <2>2, <2>3
<1> QED
  BY <1>2, IInvAlways, PTL

\* The assumption is needed: a session whose id ends in the suffix is never listed,
\* although its file is there all the time (trim_end_matches in list_sessions).
THEOREM SuffixedNeverListed ==
    ASSUME NEW s \in Sessions, s.ends > 0
    PROVE  Spec => [](\A t \in Tasks : s \notin found[t])
<1>1. \A r \in Sessions : ListedAs(r).ends = 0
  BY StoreAssumption DEF ListedAs, Valid, Names
<1>2. IInv => \A t \in Tasks : s \notin found[t]
  <2> SUFFICES ASSUME IInv, NEW t \in Tasks
               PROVE  s \notin found[t]
    OBVIOUS
  <2>1. found[t] \subseteq {ListedAs(r) : r \in Sessions}
    BY DEF IInv, TypeOK
  <2>2. s \in found[t] => s.ends = 0
    BY <1>1, <2>1
  <2> QED
    BY <2>2
<1> QED
  BY <1>2, IInvAlways, PTL

\* With no call under way the cache agrees with the disk for every session whose
\* calls have not overlapped and whose last save was not dropped between its rename
\* and the cache (save, load, delete), whoever saves what.
THEOREM CacheCoherentAlways == Spec => []CacheCoherentApart
<1>1. IInv => CacheCoherentApart
  <2> SUFFICES ASSUME IInv, \A t \in Tasks : ~Busy(t), NEW s \in Sessions \ (raced \cup behind)
               PROVE  Coherent(s)
    BY DEF CacheCoherentApart
  <2>1. \A t \in Tasks : pc[t] # "insert"
    BY DEF Busy
  <2> QED
    BY <2>1 DEF IInv, CacheInv
<1> QED
  BY <1>1, IInvAlways, PTL

\* What one session saves never shows up in another's file or cache, and so in no
\* load of it, however callers overlap and whatever fails (session_path, save, load).
THEOREM SessionsStaySeparate == Spec => []SessionsSeparate
<1>1. Init => OwnData
  BY ConstantFacts DEF Init, OwnData
<1>2. IInv /\ OwnData /\ [Next]_vars => OwnData'
  BY OwnDataNext
<1>3. IInv /\ OwnData => SessionsSeparate
  BY ConstantFacts DEF IInv, TypeOK, InodesOwned, OwnData, SessionsSeparate
<1> QED
  BY <1>1, <1>2, <1>3, IInvAlways, PTL DEF Spec
===============================================================================
