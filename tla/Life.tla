-------------------------------- MODULE Life --------------------------------
(***************************************************************************)
(* The lives of the coload process, and what survives between them: the    *)
(* file that estimates.py keeps, and the engines with what they hold.      *)
(*                                                                         *)
(* A crash or a shutdown takes every coroutine, the mutex and the tables   *)
(* with it.  The next life reads the file and adopts what it finds before  *)
(* it serves.  It looks for what Ollama and the detached vLLM engines      *)
(* hold; a vLLM whose process coload owned may outlive it, and belongs to  *)
(* somebody else from then on.  What an engine was loading by then has     *)
(* come up or has been given up; one that is slower than the restart, and  *)
(* what becomes of the port of a survivor, is in Ollama.tla and Vllm.tla.  *)
(***************************************************************************)
EXTENDS Orchestrator

CONSTANTS
  Lives,      \* bound on the number of lives
  Files,      \* what the estimates file may hold to begin with
  FileFails   \* whether the estimates file may fail to be read or written

ASSUME LifeAssumption ==
  /\ Lives \in Nat \ {0} /\ FileFails \in BOOLEAN
  /\ \A f \in Files : IsByteCount(f)

VARIABLES
  file,     \* the estimates file: model -> bytes
  life,     \* which life of coload this is
  owned,    \* the configuration: elastic engines whose process is coload's own
  misread,  \* history: whether this life could not read the file
  orphaned  \* history: residents that this life was not told of

lifeVars == <<vars, file, life, owned, misread, orphaned>>

\* _save writes a new file and then replaces the old one by it, so that a crash
\* finds the one or the other.
Save == file' = IF learned' # learned THEN learned' ELSE file

\* The file cannot be written: the estimate is learned, and observe raises
\* before the model is touched.
LoadUnsaved(t) ==
  LET m == work[t].model IN
  /\ FileFails /\ pc[t] = "loaded" /\ ~ IsElastic(m)
  /\ Observe(m, work[t].free - FreeNow)
  /\ learned' # learned
  /\ Leave(t, "error")
  /\ UNCHANGED <<lastUsed, card, now, file>>

\* What loads and then meets an error stays on the card untouched, until it is
\* asked for again.
Orphan ==
  LET erred == {t \in Task : pc[t] = "loaded" /\ pc'[t] = "error"} IN
  orphaned' = (orphaned \cup {work[t].model : t \in erred}) \cap (DOMAIN held' \ DOMAIN lastUsed')

\* Mutant: the file is not read.
ReadNothing == learned' = Empty /\ misread' = FALSE

\* EstimateStore._load, which takes a file that it cannot read, or make out, for an
\* empty one.
Read ==
  \/ learned' = file /\ misread' = FALSE
  \/ FileFails /\ learned' = Empty /\ misread' = TRUE

\* What was being loaded when coload stopped is on the card, or is not.
LeftBehind ==
  {held} \cup {Put(held, work[t].model, Footprint(work[t].model, Handed(work[t]))) :
                 t \in {u \in Task : pc[u] = "load" /\ ~ Occupied(u)}}

\* What survives on the card as out-of-band use is some of what the owned engines
\* held; OobLevels bounds it.
Survives(after) ==
  LET own == {m \in DOMAIN after : EngineOf[m] \in owned} IN
  /\ held' = Restrict(after, DOMAIN after \ own)
  /\ \E alive \in SUBSET own : oob' = oob + Bytes(Restrict(after, alive))
  /\ oob' \in OobLevels /\ Free(held', oob') >= 0

Crash ==
  /\ life < Lives /\ life' = life + 1
  /\ pc' = FreshPc /\ work' = FreshWork /\ mutex' = <<>>
  /\ lastUsed' = Empty /\ Read
  /\ \E after \in LeftBehind : Survives(after)
  /\ orphaned' = DOMAIN held' \cap Untagged
  /\ UNCHANGED <<now, file, owned>>

LifeInit ==
  /\ pc = FreshPc /\ work = FreshWork /\ mutex = <<>> /\ lastUsed = Empty
  /\ Found
  /\ file \in Files /\ life = 1
  /\ \/ learned = file /\ misread = FALSE
     \/ FileFails /\ learned = Empty /\ misread = TRUE
  /\ owned \in SUBSET Elastic /\ \A m \in DOMAIN held : EngineOf[m] \notin owned
  /\ orphaned = DOMAIN held \cap Untagged

LifeNext ==
  \/ Next /\ Save /\ Orphan /\ UNCHANGED <<life, owned, misread>>
  \/ (\A u \in Task : pc[u] \notin Running) /\ (\E t \in Clients : LoadUnsaved(t))
     /\ Orphan /\ UNCHANGED <<life, owned, misread>>
  \/ Crash

LifeSpec == LifeInit /\ [][LifeNext]_lifeVars

\* A model that an engine holds for coload and that nothing tracks had its load end
\* in an error in this life, or was there when it started under a name that is
\* configured without its tag: a restart finds again all the rest that earlier
\* lives left with Ollama and with the detached engines.
OrphansReclaimed ==
  \A m \in DOMAIN held :
    \/ m \in DOMAIN lastUsed \cup orphaned
    \/ \E t \in Task : pc[t] = "loaded" /\ work[t].model = m
    \/ pc[Sweeper] = "adopt" /\ EngineOf[m] \in work[Sweeper].ask

\* "Learned figures are cached to disk so a restart keeps what real loads taught
\* us", and "keeps the peak" (estimates.py): no restart and no failed write ever
\* lowers a figure on disk, but in a life that could not read the file.
PeaksOnDiskGrow ==
  [][misread \/ \A m \in DOMAIN file : m \in DOMAIN file' /\ file'[m] >= file[m]]_lifeVars

=============================================================================
