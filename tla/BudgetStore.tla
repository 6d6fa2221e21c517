------------------------------ MODULE BudgetStore ------------------------------
(***************************************************************************)
(* BudgetStore of src/persistence/mod.rs: tasks of one process save, load, *)
(* delete and list sessions; the process may crash and start again with an *)
(* empty cache.  A step is one file system call or one hold of the cache   *)
(* lock.  tokio::fs::write is two calls, the open that truncates and the   *)
(* write; a path names an inode, and an open file stays the same inode     *)
(* when its path is renamed or removed.                                    *)
(*                                                                         *)
(* A session id is a base followed by ".budget.json" ends times: the dot    *)
(* and all its letters are allowed in an id.                               *)
(*                                                                         *)
(* The data of the n-th save is the number n.  A file's content is the set *)
(* of saves whose bytes it holds: {} is a truncated file, {n} the JSON of  *)
(* save n, and anything larger does not parse.                             *)
(***************************************************************************)
EXTENDS Integers, FiniteSets, Sequences

CONSTANTS Tasks,          \* tasks that share the store
          Sessions,       \* session ids in use
          MaxSaves,       \* bound of the model: saves in all
          SerialSaves     \* TRUE when callers never overlap saves and deletes of a session

\* A file name is written like an id, with the suffix counted in.
Names == [base : STRING, ends : Nat]

\* session_path: the base may be anything but empty or beginning with a dot, so
\* the suffix alone is no id; an invalid id is refused before anything is done.
Valid(s) == s \in Names /\ s.base # ""
FileName(s) == [s EXCEPT !.ends = @ + 1]

ASSUME StoreAssumption ==
    /\ Sessions # {} /\ \A s \in Sessions : Valid(s)
    /\ MaxSaves \in Nat
    /\ SerialSaves \in BOOLEAN

None == 0
Saves == 1..MaxSaves
Inodes == 1..MaxSaves

VARIABLES saves,      \* number of saves begun
          tmp,        \* tmp[s]: inode at <s>.budget.json.tmp, or None
          file,       \* file[s]: inode at <s>.budget.json, or None
          content,    \* content[i]: what inode i holds
          cache,      \* cache[s]: the save cached for s, or None
          pc,         \* pc[t]: what task t does next
          session,    \* session[t]: the session t works on
          data,       \* data[t]: the save t writes or has read
          fd,         \* fd[t]: the inode t has open for writing
          owner,      \* history: owner[n], the session of the n-th save
          durable,    \* history: durable[s], the last finished save, None if deleted
          raced,      \* history: sessions whose calls have overlapped in this process
          behind,     \* history: sessions whose cache entry a dropped save left as it was
          todo,       \* todo[t]: sessions whose file name t's read_dir has not come to
          found,      \* found[t]: ids on t's list
          lasting,    \* history: lasting[t], acknowledged all the time t was listing
          sighted     \* history: sighted[t], had a file some time while t was listing

disk == <<tmp, file, content>>
listing == <<todo, found, lasting, sighted>>
vars == <<saves, disk, cache, pc, session, data, fd, owner, durable, raced, behind,
          listing>>

\* A step leaves the lists alone; the histories follow the disk.
NotListing ==
    /\ UNCHANGED <<todo, found>>
    /\ lasting' = [t \in Tasks |-> {s \in lasting[t] : durable'[s] # None}]
    /\ sighted' = [t \in Tasks |->
            IF pc[t] = "list" THEN sighted[t] \cup {s \in Sessions : file'[s] # None} ELSE sighted[t]]

Goto(t, p) == pc' = [pc EXCEPT ![t] = p]

\* t's call is over.
Done(t) ==
    /\ Goto(t, "idle")
    /\ data' = [data EXCEPT ![t] = None]
    /\ fd' = [fd EXCEPT ![t] = None]
    /\ session' = [session EXCEPT ![t] = CHOOSE s \in Sessions : TRUE]

Init ==
    /\ saves = 0
    /\ tmp = [s \in Sessions |-> None]
    /\ file = [s \in Sessions |-> None]
    /\ content = [i \in Inodes |-> {}]
    /\ cache = [s \in Sessions |-> None]
    /\ pc = [t \in Tasks |-> "idle"]
    /\ session = [t \in Tasks |-> CHOOSE s \in Sessions : TRUE]
    /\ data = [t \in Tasks |-> None]
    /\ fd = [t \in Tasks |-> None]
    /\ owner = <<>>
    /\ durable = [s \in Sessions |-> None]
    /\ raced = {} /\ behind = {}
    /\ todo = [t \in Tasks |-> {}]
    /\ found = [t \in Tasks |-> {}]
    /\ lasting = [t \in Tasks |-> {}]
    /\ sighted = [t \in Tasks |-> {}]

\* t is in the middle of a call that works on a session.
Busy(t) == pc[t] \notin {"idle", "list"}

Mutating == {"open", "write", "rename", "insert", "remove", "unlink"}

\* t may begin a save or delete (change) or a load of s.
MayStart(t, s, change) ==
    /\ pc[t] = "idle"
    /\ SerialSaves /\ change => \A u \in Tasks : pc[u] \in Mutating => session[u] # s
    /\ raced' = IF \E u \in Tasks : Busy(u) /\ session[u] = s
                THEN raced \cup {s} ELSE raced

-------------------------------------------------------------------------------
(***************************************************************************)
(* save: write the temporary file, rename it, fill the cache.              *)
(***************************************************************************)
StartSave(t, s) ==
    /\ MayStart(t, s, TRUE)
    /\ saves < MaxSaves
    /\ saves' = saves + 1
    /\ owner' = Append(owner, s)
    /\ session' = [session EXCEPT ![t] = s]
    /\ data' = [data EXCEPT ![t] = saves + 1]
    /\ Goto(t, "open")
    /\ UNCHANGED <<disk, cache, fd, durable, behind>>

\* Mutant: the session's own file is written in place.
OpenInPlace(t) ==
    /\ pc[t] = "open"
    /\ LET s == session[t]
           i == IF file[s] = None THEN data[t] ELSE file[s]
       IN /\ tmp' = [tmp EXCEPT ![s] = i]
          /\ content' = [content EXCEPT ![i] = {}]
          /\ fd' = [fd EXCEPT ![t] = i]
    /\ Goto(t, "write")
    /\ UNCHANGED <<saves, file, cache, session, data, owner, durable, raced, behind>>

\* Open or create the temporary file, truncating it.  Every save brings an
\* inode of its own for the case that there is none.
OpenTmp(t) ==
    /\ pc[t] = "open"
    /\ LET s == session[t]
           i == IF tmp[s] = None THEN data[t] ELSE tmp[s]
       IN /\ tmp' = [tmp EXCEPT ![s] = i]
          /\ content' = [content EXCEPT ![i] = {}]
          /\ fd' = [fd EXCEPT ![t] = i]
    /\ Goto(t, "write")
    /\ UNCHANGED <<saves, file, cache, session, data, owner, durable, raced, behind>>

\* write_all from offset 0: bytes another writer has put there stay behind when
\* there were more of them.
WriteTmp(t) ==
    /\ pc[t] = "write"
    /\ \E left \in {{}, content[fd[t]]} :
         content' = [content EXCEPT ![fd[t]] = left \cup {data[t]}]
    /\ Goto(t, "rename")
    /\ UNCHANGED <<saves, tmp, file, cache, session, data, fd, owner, durable, raced, behind>>

\* Disk full: save returns the error and leaves the temporary file as it is.
WriteFails(t) ==
    /\ pc[t] = "write"
    /\ Done(t)
    /\ UNCHANGED <<saves, disk, cache, owner, durable, raced, behind>>

\* Mutant: the temporary file is renamed when the write has failed, too.
RenameAlways(t) ==
    /\ pc[t] \in {"write", "rename"}
    /\ LET s == session[t]
       IN /\ tmp[s] # None
          /\ file' = [file EXCEPT ![s] = tmp[s]]
          /\ tmp' = [tmp EXCEPT ![s] = None]
    /\ Goto(t, "insert")
    /\ UNCHANGED <<saves, content, cache, session, data, fd, owner, durable, raced, behind>>

RenameTmp(t) ==
    /\ pc[t] = "rename"
    /\ LET s == session[t]
       IN /\ tmp[s] # None
          /\ file' = [file EXCEPT ![s] = tmp[s]]
          /\ tmp' = [tmp EXCEPT ![s] = None]
    /\ Goto(t, "insert")
    /\ UNCHANGED <<saves, content, cache, session, data, fd, owner, durable, raced, behind>>

\* The file system refuses, or another save has renamed the file away: save
\* returns the error.
RenameFails(t) ==
    /\ pc[t] = "rename"
    /\ Done(t)
    /\ UNCHANGED <<saves, disk, cache, owner, durable, raced, behind>>

InsertSaved(t) ==
    /\ pc[t] = "insert"
    /\ cache' = [cache EXCEPT ![session[t]] = data[t]]
    /\ durable' = [durable EXCEPT ![session[t]] = data[t]]
    /\ behind' = behind \ {session[t]}
    /\ Done(t)
    /\ UNCHANGED <<saves, disk, owner, raced>>

-------------------------------------------------------------------------------
(***************************************************************************)
(* load: the cache first, then the file, which fills the cache.            *)
(***************************************************************************)
LoadMiss(t, s) ==
    /\ MayStart(t, s, FALSE)
    /\ cache[s] = None
    /\ session' = [session EXCEPT ![t] = s]
    /\ Goto(t, "read")
    /\ UNCHANGED <<saves, disk, cache, data, fd, owner, durable, behind>>

\* What a read of s's file parses as: nothing when the file is missing or holds
\* anything but the JSON of one save.
Parsed(s) == {v \in Saves : file[s] # None /\ content[file[s]] = {v}}

ReadFile(t) ==
    /\ pc[t] = "read"
    /\ \E v \in Parsed(session[t]) : data' = [data EXCEPT ![t] = v]
    /\ Goto(t, "insertLoaded")
    /\ UNCHANGED <<saves, disk, cache, session, fd, owner, durable, raced, behind>>

\* Mutant: a session that is not found is cached, empty, all the same.
LoadFailsCaches(t) ==
    /\ pc[t] = "read"
    /\ Goto(t, "insertLoaded")
    /\ UNCHANGED <<saves, disk, cache, session, data, fd, owner, durable, raced, behind>>

\* The file is missing, does not parse or cannot be read: load returns the error.
LoadFails(t) ==
    /\ pc[t] = "read"
    /\ Done(t)
    /\ UNCHANGED <<saves, disk, cache, owner, durable, raced, behind>>

InsertLoaded(t) ==
    /\ pc[t] = "insertLoaded"
    /\ cache' = [cache EXCEPT ![session[t]] = data[t]]
    /\ Done(t)
    /\ UNCHANGED <<saves, disk, owner, durable, raced, behind>>

-------------------------------------------------------------------------------
(***************************************************************************)
(* delete: the cache first, then the file.                                 *)
(***************************************************************************)
StartDelete(t, s) ==
    /\ MayStart(t, s, TRUE)
    /\ session' = [session EXCEPT ![t] = s]
    /\ Goto(t, "remove")
    /\ UNCHANGED <<saves, disk, cache, data, fd, owner, durable, behind>>

\* Mutant: delete leaves the cache alone.
RemoveNothing(t) ==
    /\ pc[t] = "remove"
    /\ Goto(t, "unlink")
    /\ UNCHANGED <<saves, disk, cache, session, data, fd, owner, durable, raced, behind>>

RemoveCached(t) ==
    /\ pc[t] = "remove"
    /\ cache' = [cache EXCEPT ![session[t]] = None]
    /\ behind' = behind \ {session[t]}
    /\ Goto(t, "unlink")
    /\ UNCHANGED <<saves, disk, session, data, fd, owner, durable, raced>>

RemoveFile(t) ==
    /\ pc[t] = "unlink"
    /\ file' = [file EXCEPT ![session[t]] = None]
    /\ durable' = [durable EXCEPT ![session[t]] = None]
    /\ Done(t)
    /\ UNCHANGED <<saves, tmp, content, cache, owner, raced, behind>>

\* The file system refuses: delete returns the error, the cache entry is gone.
RemoveFails(t) ==
    /\ pc[t] = "unlink"
    /\ Done(t)
    /\ UNCHANGED <<saves, disk, cache, owner, durable, raced, behind>>

-------------------------------------------------------------------------------
(***************************************************************************)
(* A caller drops the future of a save, a load or a delete that waits for  *)
(* the cache lock.  A save has renamed its file by then.                   *)
(***************************************************************************)
DropAtLock(t) ==
    /\ pc[t] \in {"insert", "insertLoaded", "remove"}
    /\ behind' = IF pc[t] = "insert" /\ cache[session[t]] # None
                 THEN behind \cup {session[t]} ELSE behind
    /\ Done(t)
    /\ UNCHANGED <<saves, disk, cache, owner, durable, raced>>

-------------------------------------------------------------------------------
(***************************************************************************)
(* list_sessions: read_dir comes to every name that is there all the time  *)
(* once, in any order, while other tasks save and delete.  The temporary   *)
(* files have another ending.                                              *)
(***************************************************************************)
\* trim_end_matches takes the suffix off as often as it is there.
ListedAs(name) == [name EXCEPT !.ends = 0]

StartList(t) ==
    /\ pc[t] = "idle"
    /\ Goto(t, "list")
    /\ todo' = [todo EXCEPT ![t] = Sessions]
    /\ found' = [found EXCEPT ![t] = {}]
    /\ lasting' = [lasting EXCEPT ![t] = {s \in Sessions : durable[s] # None}]
    /\ sighted' = [sighted EXCEPT ![t] = {s \in Sessions : file[s] # None}]
    /\ UNCHANGED <<saves, disk, cache, session, data, fd, owner, durable, raced, behind>>

\* Mutant: the list is made from the cache.
ListCached(t, s) ==
    /\ pc[t] = "list"
    /\ s \in todo[t]
    /\ todo' = [todo EXCEPT ![t] = @ \ {s}]
    /\ found' = [found EXCEPT ![t] = IF cache[s] = None THEN @ ELSE @ \cup {ListedAs(FileName(s))}]
    /\ UNCHANGED <<saves, disk, cache, pc, session, data, fd, owner, durable, raced, behind, lasting, sighted>>

ListNext(t, s) ==
    /\ pc[t] = "list"
    /\ s \in todo[t]
    /\ todo' = [todo EXCEPT ![t] = @ \ {s}]
    /\ found' = [found EXCEPT ![t] = IF file[s] = None THEN @ ELSE @ \cup {ListedAs(FileName(s))}]
    /\ UNCHANGED <<saves, disk, cache, pc, session, data, fd, owner, durable, raced, behind, lasting, sighted>>

\* The list is complete, or the file system refuses to go on.
ListEnds(t) ==
    /\ pc[t] = "list"
    /\ Done(t)
    /\ todo' = [todo EXCEPT ![t] = {}]
    /\ found' = [found EXCEPT ![t] = {}]
    /\ lasting' = [lasting EXCEPT ![t] = {}]
    /\ sighted' = [sighted EXCEPT ![t] = {}]
    /\ UNCHANGED <<saves, disk, cache, owner, durable, raced, behind>>

-------------------------------------------------------------------------------
(***************************************************************************)
(* The process dies at any point and starts again: the cache and the calls *)
(* in progress are gone, the files stay.                                   *)
(***************************************************************************)
Crash ==
    /\ cache' = [s \in Sessions |-> None]
    /\ pc' = [t \in Tasks |-> "idle"]
    /\ session' = [t \in Tasks |-> CHOOSE s \in Sessions : TRUE]
    /\ data' = [t \in Tasks |-> None]
    /\ fd' = [t \in Tasks |-> None]
    /\ raced' = {} /\ behind' = {}
    /\ todo' = [t \in Tasks |-> {}]
    /\ found' = [t \in Tasks |-> {}]
    /\ lasting' = [t \in Tasks |-> {}]
    /\ sighted' = [t \in Tasks |-> {}]
    /\ UNCHANGED <<saves, disk, owner, durable>>

-------------------------------------------------------------------------------
Next ==
    \/ /\ \E t \in Tasks :
             \/ \E s \in Sessions : StartSave(t, s) \/ LoadMiss(t, s) \/ StartDelete(t, s)
             \/ OpenTmp(t) \/ WriteTmp(t) \/ WriteFails(t)
             \/ RenameTmp(t) \/ RenameFails(t) \/ InsertSaved(t)
             \/ ReadFile(t) \/ LoadFails(t) \/ InsertLoaded(t)
             \/ RemoveCached(t) \/ RemoveFile(t) \/ RemoveFails(t)
             \/ DropAtLock(t)
       /\ NotListing
    \/ \E t \in Tasks :
         \/ StartList(t) \/ ListEnds(t)
         \/ \E s \in Sessions : ListNext(t, s)
    \/ Crash

Spec == Init /\ [][Next]_vars
-------------------------------------------------------------------------------
\* Every call carries what its step needs: the save it writes or has read, and
\* an open file from the open to its end (save, load).
TypeOK ==
    /\ saves \in 0..MaxSaves
    /\ tmp \in [Sessions -> Inodes \cup {None}]
    /\ file \in [Sessions -> Inodes \cup {None}]
    /\ content \in [Inodes -> SUBSET Saves]
    /\ cache \in [Sessions -> Saves \cup {None}]
    /\ pc \in [Tasks -> {"idle", "open", "write", "rename", "insert", "read",
                        "insertLoaded", "remove", "unlink", "list"}]
    /\ session \in [Tasks -> Sessions]
    /\ data \in [Tasks -> Saves \cup {None}]
    /\ fd \in [Tasks -> Inodes \cup {None}]
    /\ owner \in Seq(Sessions) /\ Len(owner) = saves
    /\ durable \in [Sessions -> Saves \cup {None}]
    /\ raced \subseteq Sessions /\ behind \subseteq Sessions
    /\ todo \in [Tasks -> SUBSET Sessions]
    /\ found \in [Tasks -> SUBSET {ListedAs(s) : s \in Sessions}]
    /\ lasting \in [Tasks -> SUBSET Sessions] /\ sighted \in [Tasks -> SUBSET Sessions]
    /\ \A t \in Tasks :
         /\ data[t] # None <=> pc[t] \in {"open", "write", "rename", "insert", "insertLoaded"}
         /\ fd[t] # None <=> pc[t] \in {"write", "rename", "insert"}

\* A session's file is always one complete JSON document, whenever the process
\* crashes or a write fails (save: "a crash mid-write never leaves a truncated
\* JSON file behind").
FileComplete ==
    \A s \in Sessions : file[s] # None => Cardinality(content[file[s]]) = 1

\* What save has acknowledged is on disk until it is deleted, in that or a later
\* version, through failed saves, failed deletes and crashes.
AckedSurvives ==
    \A s \in Sessions :
        durable[s] # None =>
            /\ file[s] # None
            /\ \E v \in durable[s]..saves : content[file[s]] = {v}

\* No id ends in the suffix itself.
PlainIds == \A s \in Sessions : s.ends = 0

\* A list is what its doc says, "all session IDs that have persisted state": when
\* read_dir has come to its end, a session that was acknowledged and not deleted
\* all the while is on it, though it may have been saved again meanwhile, and
\* what is on it is the id of a session that had a file at some time.  Not so
\* when an id ends in the suffix, which is trimmed off with the file name's own.
ListFaithful ==
    \A t \in Tasks :
        pc[t] = "list" /\ todo[t] = {} =>
            lasting[t] \subseteq found[t] /\ found[t] \subseteq sighted[t]

\* The cache entry of s, if there is one, is what its file holds: load answers
\* the same before and after a restart, and a deleted session is gone.
Coherent(s) == cache[s] # None => file[s] # None /\ content[file[s]] = {cache[s]}

\* When no call is in progress the cache agrees with the disk for every session
\* whose calls have not overlapped, through failing saves and deletes, except
\* where a save was dropped after its rename and left an older entry cached.
CacheCoherentApart ==
    (\A t \in Tasks : ~Busy(t)) => \A s \in Sessions \ (raced \cup behind) : Coherent(s)
===============================================================================
