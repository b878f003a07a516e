-------------------------- MODULE ProjectRegistry --------------------------
(***************************************************************************)
(* The registry of working copies (runtime/project_registry.py): every     *)
(* command registers its root and gets the project that all the commands   *)
(* on that root share.  Registration is serialized by a blocking lock of   *)
(* the operating system; look-ups take no lock.                            *)
(***************************************************************************)
EXTENDS Integers

CONSTANTS
    Callers,   \* processes and threads that use the registry
    Roots,     \* canonical roots of working copies
    Ids,       \* project ids the generator may come up with, more than once
    None

ASSUME RegistryAssumption == None \notin Callers /\ None \notin [id : Ids, root : Roots]

VARIABLES
    index,     \* registry.json: the records
    dirs,      \* project ids that have a directory
    projects,  \* project.json of each id, or None
    holder,    \* who has registry.lock
    pc,        \* where each caller is inside a call
    mem,       \* what that call knows: its root, the records it read, its own record
    answers    \* history: the records callers were given

vars == <<index, dirs, projects, holder, pc, mem, answers>>

files == <<index, dirs, projects>>

Records == [id : Ids, root : Roots]

Idle == [root |-> None, loaded |-> {}, record |-> None]

Init ==
    /\ index = {} /\ dirs = {} /\ projects = [id \in Ids |-> None]
    /\ holder = None
    /\ pc = [c \in Callers |-> "idle"]
    /\ mem = [c \in Callers |-> Idle]
    /\ answers = {}

-----------------------------------------------------------------------------
Go(c, from, to) == pc[c] = from /\ pc' = [pc EXCEPT ![c] = to]

\* _load_unlocked refuses an index with two records of one id or one root.
Decodes == \A a, b \in index : a.id = b.id \/ a.root = b.root => a = b

\* _validate_project_file
Valid(record) == projects[record.id] = record

\* The call is over: with an answer or an exception, or its process has died.  In
\* either case the lock is free again.
Over(c) ==
    /\ pc' = [pc EXCEPT ![c] = "idle"]
    /\ mem' = [mem EXCEPT ![c] = Idle]
    /\ holder' = IF holder = c THEN None ELSE holder

Answer(c) == Over(c) /\ answers' = answers \cup {mem[c].record}

-----------------------------------------------------------------------------
Register(c, root) ==
    /\ Go(c, "idle", "lock")
    /\ mem' = [mem EXCEPT ![c] = [Idle EXCEPT !.root = root]]
    /\ UNCHANGED <<files, holder, answers>>

\* Mutant: the lock is not waited for.
LockShared == TRUE

LockFree == holder = None

Acquire(c) ==
    /\ Go(c, "lock", "load")
    /\ LockFree /\ holder' = c
    /\ UNCHANGED <<files, mem, answers>>

Load(c) ==
    /\ Go(c, "load", "choose")
    /\ Decodes
    /\ mem' = [mem EXCEPT ![c].loaded = index]
    /\ UNCHANGED <<files, holder, answers>>

\* Mutant: the root is not looked for among the records.
Unknown(c) == TRUE

NewRoot(c) == \A record \in mem[c].loaded : record.root # mem[c].root

\* The root has its project already.
Known(c) ==
    /\ Go(c, "choose", "return")
    /\ \E record \in mem[c].loaded :
         /\ record.root = mem[c].root /\ Valid(record)
         /\ mem' = [mem EXCEPT ![c].record = record]
    /\ UNCHANGED <<files, holder, answers>>

Generate(c) ==
    /\ Go(c, "choose", "mkdir")
    /\ NewRoot(c)
    /\ \E id \in Ids :
         /\ \A record \in mem[c].loaded : record.id # id
         /\ mem' = [mem EXCEPT ![c].record = [id |-> id, root |-> mem[c].root]]
    /\ UNCHANGED <<files, holder, answers>>

\* mkdir without exist_ok: also what an earlier call left behind is in the way.
MakeProject(c) ==
    /\ Go(c, "mkdir", "project")
    /\ mem[c].record.id \notin dirs
    /\ dirs' = dirs \cup {mem[c].record.id}
    /\ UNCHANGED <<index, projects, holder, mem, answers>>

\* Mutant: the index is written before the project it names.
IndexFirst(c) ==
    /\ Go(c, "project", "index")
    /\ index' = mem[c].loaded \cup {mem[c].record}
    /\ UNCHANGED <<dirs, projects, holder, mem, answers>>

WriteProject(c) ==
    /\ Go(c, "project", "index")
    /\ projects' = [projects EXCEPT ![mem[c].record.id] = mem[c].record]
    /\ UNCHANGED <<index, dirs, holder, mem, answers>>

\* The index is replaced by the records this call has read and its own.
WriteIndex(c) ==
    /\ Go(c, "index", "return")
    /\ index' = mem[c].loaded \cup {mem[c].record}
    /\ UNCHANGED <<dirs, projects, holder, mem, answers>>

Return(c) == pc[c] = "return" /\ Answer(c) /\ UNCHANGED files

\* find_by_root and get: a record is taken from one reading of the index ...
LookUp(c) ==
    /\ Go(c, "idle", "found")
    /\ Decodes
    /\ \E record \in index : mem' = [mem EXCEPT ![c] = [Idle EXCEPT !.record = record]]
    /\ UNCHANGED <<files, holder, answers>>

\* ... and its project file is read later, whatever happened in between.
Confirm(c) ==
    /\ pc[c] = "found" /\ Valid(mem[c].record)
    /\ Answer(c)
    /\ UNCHANGED files

\* Mutant: an exception keeps the lock.
EndsLocked(c) ==
    /\ pc[c] # "idle"
    /\ pc' = [pc EXCEPT ![c] = "idle"]
    /\ mem' = [mem EXCEPT ![c] = Idle]
    /\ UNCHANGED <<files, holder, answers>>

\* Any step may raise or be the last of its process: the index is not decodable, the
\* id or its directory is taken, a project file disagrees, the disk fails.
Ends(c) == pc[c] # "idle" /\ Over(c) /\ UNCHANGED <<files, answers>>

-----------------------------------------------------------------------------
Proceed(c) ==
    \/ Load(c) \/ Known(c) \/ Generate(c) \/ MakeProject(c) \/ WriteProject(c)
    \/ WriteIndex(c) \/ Return(c) \/ Confirm(c)

Next ==
    \E c \in Callers :
        \/ \E root \in Roots : Register(c, root)
        \/ Acquire(c) \/ LookUp(c) \/ Proceed(c) \/ Ends(c)

Spec == Init /\ [][Next]_vars

\* A call that does not wait for the lock goes on or ends, and flock lets every waiter
\* through some time.
FairSpec ==
    /\ Spec
    /\ \A c \in Callers :
         /\ WF_vars(pc[c] # "lock" /\ (Proceed(c) \/ Ends(c)))
         /\ SF_vars(Acquire(c))

-----------------------------------------------------------------------------
Steps == {"idle", "lock", "load", "choose", "mkdir", "project", "index", "return", "found"}

(* Files hold records, and callers are at steps of the code.                           *)
TypeOK ==
    /\ index \subseteq Records /\ answers \subseteq Records
    /\ dirs \subseteq Ids
    /\ projects \in [Ids -> Records \cup {None}]
    /\ holder \in Callers \cup {None}
    /\ pc \in [Callers -> Steps]
    /\ mem \in [Callers -> [root : Roots \cup {None}, loaded : SUBSET Records,
                            record : Records \cup {None}]]

(* A root has one project and a project one root, for everybody who ever got an answer, *)
(* whichever calls ran at the same time, died or were repeated (register).             *)
OneIdentity ==
    \A a, b \in index \cup answers : a.id = b.id \/ a.root = b.root => a = b

(* What is in the index is whole: neither a crash between the files nor a reader       *)
(* without the lock meets a record whose project file is missing or another's, so that *)
(* _validate_project_file never refuses a registered root.                             *)
IndexedProjectsWhole == \A record \in index : Valid(record)

(* Whoever was given a project finds it in the registry for ever: no registration of   *)
(* another root overwrites the index with what it read before.                         *)
AnswersRegistered == answers \subseteq index

(* Every call ends, whoever died with the lock.                                        *)
CallsEnd == \A c \in Callers : pc[c] # "idle" ~> pc[c] = "idle"
=============================================================================
