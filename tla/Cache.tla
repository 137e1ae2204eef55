---------------------------------- MODULE Cache ----------------------------------
(***************************************************************************)
(* The cache of memory-mapped files (thttpd-mmc) as the server uses it: a  *)
(* response holds a mapping until it is sent or its connection closes, and *)
(* every pass of the event loop ends with a cleanup.  Other processes      *)
(* write and replace the files.                                            *)
(*                                                                         *)
(* Time is the idle time of each entry, in the unit of expire_age.         *)
(***************************************************************************)
EXTENDS Naturals, FiniteSetsExt

CONSTANTS
    Paths, Inodes, Sizes, Stamps,   \* files and their metadata
    Conns,                          \* slots that may hold a mapping
    DefaultAge,                     \* expire_age of a new cache (120 s)
    MaxSize                         \* max_size

ASSUME CacheConfig == DefaultAge \in Nat \ {0}

VARIABLES
    file,           \* [Paths -> [ino, size, ctime]]: the file system
    entries,        \* set of [key, ino, size, idle]: ino and size are the mapping's
    expire_age,
    file_address    \* [Conns -> the mapping a response holds, or {}]

cacheVars == <<file, entries, expire_age, file_address>>

File == [ino : Inodes, size : Sizes, ctime : Stamps]

(* Slip: the key is the device and inode only.                             *)
FileKeyInode(f) == f.ino

FileKey(f) == <<f.ino, f.size, f.ctime>>

Entry == [key : {FileKey(f) : f \in File}, ino : Inodes, size : Sizes, idle : 0..(2 * DefaultAge)]

CacheTypeOK ==
    /\ file \in [Paths -> File]
    /\ entries \subseteq Entry
    /\ expire_age \in Nat
    /\ DOMAIN file_address = Conns

CacheInit ==
    /\ file \in {f \in [Paths -> File] : \A p, q \in Paths : p # q => f[p].ino # f[q].ino}
    /\ entries = {}
    /\ expire_age = DefaultAge
    /\ file_address = [c \in Conns |-> {}]

-----------------------------------------------------------------------------

mapping(e) == [key |-> e.key, ino |-> e.ino, size |-> e.size]

(* Rc::strong_count(&entry.mmap) > 1                                       *)
inUse(e) == \E c \in Conns : mapping(e) \in file_address[c]

(* map, for a connection that starts a response: a hit refreshes last_used *)
(* and a miss maps the file as it is now.                                  *)
Map(c, p) ==
    LET hit == {e \in entries : e.key = FileKey(file[p])}
        new == [key |-> FileKey(file[p]), ino |-> file[p].ino, size |-> file[p].size, idle |-> 0]
    IN  /\ file_address[c] = {}
        /\ entries' = IF hit = {} THEN entries \union {new}
                      ELSE (entries \ hit) \union {[e EXCEPT !.idle = 0] : e \in hit}
        /\ file_address' = [file_address EXCEPT
              ![c] = {mapping(e) : e \in IF hit = {} THEN {new} ELSE hit}]
        /\ UNCHANGED <<file, expire_age>>

(* unmap, or the drop of the slot's file_address: the Rc count goes down.  *)
Release(c) ==
    /\ file_address[c] # {}
    /\ file_address' = [file_address EXCEPT ![c] = {}]
    /\ UNCHANGED <<file, entries, expire_age>>

(* Slips: the count is compared with 1 the wrong way; it is not looked at. *)
retainedForever(e) == TRUE

retainedByAge(e) == e.idle < expire_age

retained(e) == inUse(e) \/ e.idle < expire_age

totalSize(E) == FoldSet(LAMBDA e, sum : e.size + sum, 0, E)

adapted(total) ==
    IF total > MaxSize THEN expire_age \div 2
    ELSE IF expire_age < DefaultAge THEN expire_age * 2 ELSE expire_age

Cleanup ==
    LET kept == {e \in entries : retained(e)}
    IN  /\ entries' = kept
        /\ expire_age' = adapted(totalSize(kept))
        /\ UNCHANGED <<file, file_address>>

(* Idle times beyond twice the default are all alike.                      *)
Age ==
    /\ entries' = {[e EXCEPT !.idle = IF @ < 2 * DefaultAge THEN @ + 1 ELSE @] : e \in entries}
    /\ UNCHANGED <<file, expire_age, file_address>>

(* A file is overwritten or truncated in place: its size and status-change *)
(* time move, and two writes in one tick of the clock leave the same time. *)
Overwrite(p, size, ctime) ==
    /\ file' = [file EXCEPT ![p] = [@ EXCEPT !.size = size, !.ctime = ctime]]
    /\ UNCHANGED <<entries, expire_age, file_address>>

(* A new file takes its place; the kernel reuses no inode that is mapped.  *)
Replace(p, new) ==
    /\ \A q \in Paths : file[q].ino # new.ino
    /\ \A e \in entries : e.ino # new.ino
    /\ file' = [file EXCEPT ![p] = new]
    /\ UNCHANGED <<entries, expire_age, file_address>>

CacheNext ==
    \/ \E c \in Conns : Release(c) \/ \E p \in Paths : Map(c, p)
    \/ Cleanup
    \/ Age
    \/ \E p \in Paths, size \in Sizes, ctime \in Stamps : Overwrite(p, size, ctime)
    \/ \E p \in Paths, new \in File : Replace(p, new)

CacheSpec == CacheInit /\ [][CacheNext]_cacheVars

(* The loop goes round, and time passes.                                   *)
CacheFairness == WF_cacheVars(Cleanup) /\ WF_cacheVars(Age)

-----------------------------------------------------------------------------

(* A response is built from a mapping of the file that its path names now, *)
(* with the length the file has now, whatever was cached before it was     *)
(* overwritten, truncated or replaced (FileKey, thttpd-mmc lib.rs:24-37).  *)
ServedIsCurrent ==
    [][\A c \in Conns : file_address'[c] \notin {{}, file_address[c]} =>
          \A m \in file_address'[c] :
             \E p \in Paths : m.ino = file[p].ino /\ m.size = file[p].size]_cacheVars

(* The mapping of a response that is being sent stays in the cache and in  *)
(* its size, however old it is (cleanup, thttpd-mmc lib.rs:146-150).       *)
InUseStaysCached == \A c \in Conns : file_address[c] \subseteq {mapping(e) : e \in entries}

(* However often the age was halved, rounded down and doubled, it stays    *)
(* below twice the default (cleanup, thttpd-mmc lib.rs:156-161).           *)
AgeBounded == expire_age < 2 * DefaultAge

(* A mapping nobody uses is given up, even while the age adapts.           *)
IdleIsEvicted ==
    \A k \in {FileKey(f) : f \in File} :
        []<>(\A e \in entries : e.key = k => inUse(e))
=============================================================================
