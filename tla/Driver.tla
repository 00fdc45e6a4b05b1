------------------------------- MODULE Driver -------------------------------
(***************************************************************************)
(* main of inquiry (inquiry.cc): the command line is split into options of *)
(* inquiry and arguments of clang, then the stages of an analysis follow,  *)
(* one after the other.  Meanwhile SIGUSR1 and SIGUSR2 may arrive at any   *)
(* time and change the debugging level, a plain int: from the two calls of *)
(* signal() on, their handler interrupts main and - as a handler blocks    *)
(* only its own signal - the handler of the other one.  An increment is a  *)
(* load and a store.                                                       *)
(*                                                                         *)
(* Words of the command line are strings, atoi is a function of them.  A   *)
(* stage is a step; what the stages do is in the other modules.            *)
(***************************************************************************)
EXTENDS Integers, Sequences, Functions

CONSTANTS
  Commands,     \* command lines, without the name of the program
  atoi,         \* of the words
  NoWord,       \* no option
  MaxSignals    \* bound: signals sent

Words == UNION {Range(c) : c \in Commands}

ASSUME DriverAssumption ==
  /\ Commands \subseteq Seq(Words)
  /\ atoi \in [Words -> Int]
  /\ NoWord \notin Words
  /\ MaxSignals \in Nat

Signals == {"SIGUSR1", "SIGUSR2"}

VARIABLES
  argv, pc, i, j,
  arguments,          \* what CreateFromArgs is called with
  mongo_collection,   \* NoWord: the default
  inqdebug,
  outcome,            \* "running", or how the process has ended
  installed,          \* signals with the handler
  pending, handlers,  \* handlers running, innermost first: [sig, loaded, level]
  sent,
  assigned, ups, downs, nested
    \* history: the level main has set last, the handlers of each signal that
    \* have run since, and whether one has interrupted another

options == <<arguments, mongo_collection>>
signals == <<installed, pending, handlers, sent>>
history == <<assigned, ups, downs, nested>>
driverVars == <<argv, pc, i, j, options, inqdebug, outcome, signals, history>>

Stages == <<"createDiagnostics", "FlushDiagnostics", "ExecuteAction", "llvm_shutdown",
            "PostProcessMacros", "DumpAll", "MapComponents", "DumpDocuments">>

DriverInit ==
  /\ argv \in Commands /\ pc = "signal1" /\ i = 1 /\ j = 1
  /\ arguments = <<>> /\ mongo_collection = NoWord /\ inqdebug = 0 /\ outcome = "running"
  /\ installed = {} /\ pending = {} /\ handlers = <<>> /\ sent = 0
  /\ assigned = 0 /\ ups = 0 /\ downs = 0 /\ nested = FALSE

-----------------------------------------------------------------------------
(* main, which only runs while no handler does                             *)
Main(at) == outcome = "running" /\ handlers = <<>> /\ pc = at

Handled(at) == IF at = "signal1" THEN "SIGUSR1" ELSE "SIGUSR2"

Install ==
  /\ Main("signal1") \/ Main("signal2")
  /\ installed' = installed \cup {Handled(pc)}
  /\ pc' = IF pc = "signal1" THEN "signal2" ELSE "cc"
  /\ UNCHANGED <<argv, i, j, options, inqdebug, outcome, pending, handlers, sent, history>>

(* The first -cc is at k, or k is behind the last word.                    *)
FirstCC(k) == /\ k <= Len(argv) => argv[k] = "-cc"
              /\ \A l \in 1..k-1 : argv[l] # "-cc"

(* exit(1) unless there is an argument behind -cc.                         *)
FindCC ==
  /\ Main("cc")
  /\ \E k \in 1..Len(argv) + 1 :
       /\ FirstCC(k)
       /\ i' = k
       /\ IF k >= Len(argv) THEN outcome' = "exit 1" /\ UNCHANGED pc
                            ELSE pc' = "options" /\ UNCHANGED outcome
  /\ UNCHANGED <<argv, j, options, inqdebug, signals, history>>

(* Slip: the words behind -cc are looked at, too.                          *)
IsOption_Any(flag) == argv[j] = flag /\ j + 1 <= Len(argv)

(* The word behind the flag is its value, unless that is -cc; it is looked *)
(* at as a flag in its turn.                                               *)
IsOption(flag) == argv[j] = flag /\ j + 1 < i

(* Slip: the last word before -cc is looked at again and again.            *)
NextWord_Stuck == IF j + 1 = i THEN j ELSE j + 1

NextWord == j + 1

ReadOption ==
  /\ Main("options") /\ j < i
  /\ IF IsOption("-collection") THEN mongo_collection' = argv[j + 1] ELSE UNCHANGED mongo_collection
  /\ IF IsOption("-d") THEN /\ inqdebug' = atoi[argv[j + 1]]
                            /\ assigned' = inqdebug' /\ ups' = 0 /\ downs' = 0 /\ nested' = FALSE
                       ELSE UNCHANGED <<inqdebug, history>>
  /\ j' = NextWord
  /\ UNCHANGED <<argv, pc, i, arguments, outcome, signals>>

CreateFromArgs ==
  /\ Main("options") /\ j >= i
  /\ arguments' = SubSeq(argv, i + 1, Len(argv))
  /\ pc' = Head(Stages)
  /\ UNCHANGED <<argv, i, j, mongo_collection, inqdebug, outcome, signals, history>>

StageOf(at) == CHOOSE k \in DOMAIN Stages : Stages[k] = at

(* Whatever ExecuteAction returns, the stages behind it follow.            *)
Stage ==
  /\ pc \in Range(Stages) /\ Main(pc)
  /\ IF pc = Stages[Len(Stages)] THEN outcome' = "exit 0" /\ UNCHANGED pc
                          ELSE pc' = Stages[StageOf(pc) + 1] /\ UNCHANGED outcome
  /\ UNCHANGED <<argv, i, j, options, inqdebug, signals, history>>

(* From FlushDiagnostics on there is a handler of fatal errors.            *)
LLVMErrorHandler ==
  /\ Main("ExecuteAction")
  /\ outcome' = "exit 3"
  /\ UNCHANGED <<argv, pc, i, j, options, inqdebug, signals, history>>

MainStep == Install \/ FindCC \/ ReadOption \/ CreateFromArgs \/ Stage \/ LLVMErrorHandler

-----------------------------------------------------------------------------
(* Signals                                                                 *)

(* A signal that has no handler yet ends the process; one that is pending  *)
(* is not noticed.                                                         *)
Send(sig) ==
  /\ outcome = "running" /\ sent < MaxSignals
  /\ sent' = sent + 1
  /\ IF sig \in installed THEN pending' = pending \cup {sig} /\ UNCHANGED outcome
                          ELSE outcome' = "killed" /\ UNCHANGED pending
  /\ UNCHANGED <<argv, pc, i, j, options, inqdebug, installed, handlers, history>>

Deliver(sig) ==
  /\ outcome = "running" /\ sig \in pending
  /\ \A k \in DOMAIN handlers : handlers[k].sig # sig
  /\ pending' = pending \ {sig}
  /\ handlers' = <<[sig |-> sig, loaded |-> FALSE, level |-> 0]>> \o handlers
  /\ nested' = (nested \/ handlers # <<>>)
  /\ UNCHANGED <<argv, pc, i, j, options, inqdebug, outcome, installed, sent, assigned, ups, downs>>

(* Slip: no break after SIGUSR1.                                           *)
Changed_Through(h) == IF h.sig = "SIGUSR1" THEN h.level ELSE h.level - 1

Changed(h) == IF h.sig = "SIGUSR1" THEN h.level + 1 ELSE h.level - 1

sighandler ==
  /\ outcome = "running" /\ handlers # <<>>
  /\ LET h == Head(handlers)
     IN  IF ~h.loaded
         THEN /\ handlers' = [handlers EXCEPT ![1] = [sig |-> h.sig, loaded |-> TRUE, level |-> inqdebug]]
              /\ UNCHANGED <<inqdebug, ups, downs>>
         ELSE /\ inqdebug' = Changed(h)
              /\ handlers' = Tail(handlers)
              /\ IF h.sig = "SIGUSR1" THEN ups' = ups + 1 /\ UNCHANGED downs
                                      ELSE downs' = downs + 1 /\ UNCHANGED ups
  /\ UNCHANGED <<argv, pc, i, j, options, outcome, installed, pending, sent, assigned, nested>>

-----------------------------------------------------------------------------
DriverNext ==
  \/ MainStep
  \/ \E sig \in Signals : Send(sig) \/ Deliver(sig)
  \/ sighandler

(* The process is scheduled; nobody has to send a signal.                  *)
DriverSpec == DriverInit /\ [][DriverNext]_driverVars
              /\ WF_driverVars(MainStep) /\ WF_driverVars(sighandler)

-----------------------------------------------------------------------------
(* Types of what has to do with the level                                  *)
Handler == [sig : Signals, loaded : BOOLEAN, level : Int]

LevelTypeOK ==
  /\ argv \in Commands /\ i \in 1..Len(argv) + 1 /\ j \in Nat \ {0}
  /\ inqdebug \in Int /\ handlers \in Seq(Handler)
  /\ assigned \in Int /\ ups \in Nat /\ downs \in Nat /\ nested \in BOOLEAN

(* "Send SIGUSR1 to increase debugging level and SIGUSR2 to decrease": the *)
(* level is the one main has set last, changed by every handler since - of *)
(* handlers that interrupt each other some changes may be missing, but the *)
(* level never leaves the range that the signals span.                     *)
LevelFollowsSignals == handlers = <<>> =>
  /\ inqdebug \in assigned - downs..assigned + ups
  /\ ~nested => inqdebug = assigned + ups - downs

(* The invariant behind it: what a handler has loaded is in the range, and *)
(* it is the level unless another handler has run since.                   *)
LevelRange == assigned - downs..assigned + ups
LevelInv ==
  /\ LevelTypeOK
  /\ inqdebug \in LevelRange
  /\ \A k \in DOMAIN handlers : handlers[k].loaded => handlers[k].level \in LevelRange
  /\ ~nested => /\ Len(handlers) <= 1
                /\ inqdebug = assigned + ups - downs
                /\ \A k \in DOMAIN handlers : handlers[k].loaded => handlers[k].level = inqdebug

Option(flag, w) == IF w = NoWord THEN <<>> ELSE <<flag, w>>

(* A command line as in the SYNOPSIS of inq.1 has the options it says:     *)
(* "All arguments past -cc are clang driver arguments.  The others before  *)
(* are for inquiry flags."  It may not name a collection "-collection" and *)
(* have a level, too (section 4 of the README).                            *)
OptionsOfSynopsis == pc \in Range(Stages) \/ outcome = "exit 1" =>
  \A n, v \in (Words \cup {NoWord}) \ {"-cc"} : \A k \in 1..Len(argv) :
    LET rest == SubSeq(argv, k + 1, Len(argv))
    IN  /\ argv = Option("-collection", n) \o Option("-d", v) \o <<"-cc">> \o rest
        /\ rest # <<>>
        /\ n # "-collection" \/ v = NoWord
        => /\ outcome # "exit 1"
           /\ mongo_collection = n
           /\ assigned = IF v = NoWord THEN 0 ELSE atoi[v]
           /\ arguments = rest

(* The process ends: no option, and no signal, keeps main from the end.    *)
MainEnds == <>(outcome # "running")

(* The invariant behind OptionsOfSynopsis: of the words main has looked at *)
(* - those before j, which ends behind -cc - the last that is a flag with  *)
(* a value has set its option.                                             *)
Flags(flag) == {l \in 1..j - 1 : argv[l] = flag /\ l + 1 < i}

LastFlag(flag, l) == l \in Flags(flag) /\ \A m \in Flags(flag) : m <= l

OptionsRead ==
  /\ \/ Flags("-collection") = {} /\ mongo_collection = NoWord
     \/ \E l \in 1..j - 1 : LastFlag("-collection", l) /\ mongo_collection = argv[l + 1]
  /\ \/ Flags("-d") = {} /\ assigned = 0
     \/ \E l \in 1..j - 1 : LastFlag("-d", l) /\ assigned = atoi[argv[l + 1]]

CommandInv ==
  /\ argv \in Commands /\ i \in 1..Len(argv) + 1 /\ j \in Nat \ {0}
  /\ pc \in {"signal1", "signal2", "cc", "options"} \cup Range(Stages)
  /\ pc \in {"signal1", "signal2", "cc"} => j = 1 /\ mongo_collection = NoWord /\ assigned = 0
  /\ outcome = "exit 1" => pc = "cc" /\ FirstCC(i) /\ i >= Len(argv)
  /\ pc \in {"options"} \cup Range(Stages) => FirstCC(i) /\ i < Len(argv) /\ OptionsRead
  /\ pc \in Range(Stages) => j >= i /\ arguments = SubSeq(argv, i + 1, Len(argv))
=============================================================================
