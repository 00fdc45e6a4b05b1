---------------------------- MODULE DriverProofs ----------------------------
(* Proofs about Driver: the debugging level and the options, for every     *)
(* command line and whatever signals arrive.                               *)
EXTENDS Driver, SequenceTheorems, TLAPS

(* Nothing is running when main begins.                                    *)
LEMMA InitLevel == DriverInit => LevelInv
<1> SUFFICES ASSUME DriverInit PROVE LevelInv
  OBVIOUS
<1>1. argv \in Seq(Words)
  BY DriverAssumption DEF DriverInit
<1>2. LevelTypeOK
  <2>1. Len(argv) \in Nat /\ 1 \in 1..Len(argv) + 1
    BY <1>1
  <2>2. handlers \in Seq(Handler)
    BY DEF DriverInit
  <2>3. argv \in Commands /\ i = 1 /\ j = 1 /\ nested \in BOOLEAN
    BY DEF DriverInit
  <2>4. inqdebug = 0 /\ assigned = 0 /\ ups = 0 /\ downs = 0
    BY DEF DriverInit
  <2>5. QED
    BY <2>1, <2>2, <2>3, <2>4 DEF LevelTypeOK
<1>3. QED
  BY <1>2 DEF DriverInit, LevelInv, LevelRange

(* A step that leaves the level, its handlers and its history alone keeps  *)
(* the invariant.                                                          *)
LEMMA Untouched ==
  ASSUME LevelInv, argv' = argv, i' \in 1..Len(argv) + 1, j' \in Nat \ {0},
         UNCHANGED <<inqdebug, handlers, history>>
  PROVE  LevelInv'
<1> USE DEF history
<1>1. LevelTypeOK'
  BY DEF LevelInv, LevelTypeOK
<1>2. QED
  BY <1>1 DEF LevelInv, LevelRange

(* A value of -d is a number.                                              *)
LEMMA OptionValue ==
  ASSUME LevelInv, IsOption("-d") PROVE atoi[argv[j + 1]] \in Int
<1>1. argv \in Seq(Words) /\ i \in 1..Len(argv) + 1 /\ j \in Nat /\ j + 1 < i
  BY DriverAssumption DEF LevelInv, LevelTypeOK, IsOption
<1>2. j + 1 \in 1..Len(argv)
  BY <1>1
<1>3. argv[j + 1] \in Words
  BY <1>1, <1>2
<1>4. QED
  BY <1>3, DriverAssumption

(* A level no handler has changed                                          *)
LEMMA NoSignal == ASSUME NEW l \in Int PROVE l \in l - 0..l + 0 /\ l = l + 0 - 0
  OBVIOUS

(* Main only sets the level while no handler runs.                         *)
LEMMA ReadOptionLevel == ASSUME LevelInv, ReadOption PROVE LevelInv'
<1>1. handlers' = handlers /\ handlers = <<>> /\ argv' = argv /\ i' = i /\ j' \in Nat \ {0}
  BY DEF ReadOption, Main, signals, NextWord, LevelInv, LevelTypeOK
<1>2. CASE IsOption("-d")
  <2>1. inqdebug' \in Int /\ assigned' = inqdebug' /\ ups' = 0 /\ downs' = 0 /\ nested' = FALSE
    BY <1>2, OptionValue DEF ReadOption
  <2>2. LevelTypeOK'
    BY <1>1, <2>1 DEF LevelInv, LevelTypeOK
  <2>3. Len(handlers') = 0 /\ DOMAIN handlers' = {}
    BY <1>1
  <2>4. inqdebug' \in LevelRange' /\ inqdebug' = assigned' + ups' - downs'
    BY <2>1, NoSignal, Zenon DEF LevelRange
  <2>5. QED
    BY <2>2, <2>3, <2>4 DEF LevelInv
<1>3. CASE ~IsOption("-d")
  <2>1. UNCHANGED <<inqdebug, handlers, history>>
    BY <1>1, <1>3 DEF ReadOption
  <2>2. QED
    BY <1>1, <2>1, Untouched DEF LevelInv, LevelTypeOK
<1>4. QED
  BY <1>2, <1>3

(* What main does else, and signals that are sent.                         *)
LEMMA OtherLevel ==
  ASSUME LevelInv,
         \/ Install \/ FindCC \/ CreateFromArgs \/ Stage \/ LLVMErrorHandler
         \/ \E sig \in Signals : Send(sig)
  PROVE  LevelInv'
<1>1. UNCHANGED <<inqdebug, handlers, history>> /\ argv' = argv
  BY DEF Install, FindCC, CreateFromArgs, Stage, LLVMErrorHandler, Send, signals
<1>2. i' \in 1..Len(argv) + 1 /\ j' \in Nat \ {0}
  BY DEF Install, FindCC, CreateFromArgs, Stage, LLVMErrorHandler, Send, LevelInv, LevelTypeOK
<1>3. QED
  BY <1>1, <1>2, Untouched

(* A handler begins: it has loaded nothing.                                *)
LEMMA DeliverLevel == ASSUME LevelInv, NEW sig \in Signals, Deliver(sig) PROVE LevelInv'
<1> DEFINE h == [sig |-> sig, loaded |-> FALSE, level |-> 0]
<1>1. handlers \in Seq(Handler) /\ h \in Handler
  BY DEF LevelInv, LevelTypeOK, Handler
<1>2. handlers' = <<h>> \o handlers
  BY DEF Deliver
<1>3. /\ handlers' \in Seq(Handler) /\ Len(handlers') = Len(handlers) + 1
      /\ handlers'[1] = h
      /\ \A k \in 2..Len(handlers') : k - 1 \in DOMAIN handlers /\ handlers'[k] = handlers[k - 1]
  BY <1>1, <1>2
<1>4. UNCHANGED <<argv, i, j, inqdebug, assigned, ups, downs>> /\ nested' = (nested \/ handlers # <<>>)
  BY DEF Deliver
<1>5. LevelTypeOK'
  BY <1>3, <1>4 DEF LevelInv, LevelTypeOK
<1>6. \A k \in DOMAIN handlers' : handlers'[k].loaded =>
        k - 1 \in DOMAIN handlers /\ handlers'[k] = handlers[k - 1]
  BY <1>3
<1>7. LevelRange' = LevelRange
  BY <1>4 DEF LevelRange
<1>8. \A k \in DOMAIN handlers' : handlers'[k].loaded => handlers'[k].level \in LevelRange'
  BY <1>6, <1>7 DEF LevelInv
<1>9. ASSUME ~nested' PROVE Len(handlers') <= 1 /\ inqdebug' = assigned' + ups' - downs'
                            /\ \A k \in DOMAIN handlers' : ~handlers'[k].loaded
  <2>1. ~nested /\ handlers = <<>>
    BY <1>4, <1>9
  <2>2. QED
    BY <1>3, <1>4, <1>6, <2>1 DEF LevelInv
<1>10. QED
  BY <1>4, <1>5, <1>7, <1>8, <1>9 DEF LevelInv

(* A handler loads the level,                                              *)
LEMMA LoadLevel == ASSUME LevelInv, sighandler, ~Head(handlers).loaded PROVE LevelInv'
<1> DEFINE g == [sig |-> Head(handlers).sig, loaded |-> TRUE, level |-> inqdebug]
<1>1. /\ handlers \in Seq(Handler) /\ handlers # <<>>
      /\ handlers' = [handlers EXCEPT ![1] = g]
      /\ UNCHANGED <<argv, i, j, inqdebug, history>>
  BY DEF LevelInv, LevelTypeOK, sighandler, history
<1>2. /\ handlers' \in Seq(Handler) /\ DOMAIN handlers' = DOMAIN handlers
      /\ Len(handlers') = Len(handlers)
      /\ handlers'[1].level = inqdebug
      /\ \A k \in DOMAIN handlers : k # 1 => handlers'[k] = handlers[k]
  <2>1. /\ 1 \in DOMAIN handlers /\ Head(handlers) \in Handler
        /\ inqdebug \in Int
    BY <1>1 DEF LevelInv, LevelTypeOK
  <2>2. g \in Handler /\ g.level = inqdebug
    BY <2>1 DEF Handler
  <2>3. QED
    BY <1>1, <2>1, <2>2
<1>3. LevelTypeOK'
  BY <1>1, <1>2 DEF LevelInv, LevelTypeOK, history
<1>4. LevelRange' = LevelRange /\ inqdebug \in LevelRange
  BY <1>1 DEF LevelInv, LevelRange, history
<1>5. \A k \in DOMAIN handlers' : handlers'[k].loaded => handlers'[k].level \in LevelRange'
  BY <1>2, <1>4 DEF LevelInv
<1>6. ASSUME ~nested'
      PROVE  /\ Len(handlers') <= 1 /\ inqdebug' = assigned' + ups' - downs'
             /\ \A k \in DOMAIN handlers' : handlers'[k].loaded => handlers'[k].level = inqdebug'
  <2>1. /\ ~nested /\ inqdebug' = inqdebug
        /\ assigned' = assigned /\ ups' = ups /\ downs' = downs
    BY <1>1, <1>6 DEF history
  <2>2. QED
    BY <1>2, <2>1 DEF LevelInv
<1>7. QED
  BY <1>1, <1>3, <1>4, <1>5, <1>6 DEF LevelInv

(* and stores another one.                                                 *)
LEMMA StoreLevel == ASSUME LevelInv, sighandler, Head(handlers).loaded PROVE LevelInv'
<1> DEFINE h == Head(handlers)
<1>1. /\ handlers \in Seq(Handler) /\ handlers # <<>> /\ handlers' = Tail(handlers)
      /\ inqdebug' = Changed(h)
      /\ UNCHANGED <<argv, i, j, assigned, nested>>
      /\ IF h.sig = "SIGUSR1" THEN ups' = ups + 1 /\ downs' = downs
                              ELSE downs' = downs + 1 /\ ups' = ups
  BY DEF LevelInv, LevelTypeOK, sighandler
<1>2. /\ handlers' \in Seq(Handler) /\ Len(handlers') = Len(handlers) - 1
      /\ h = handlers[1] /\ 1 \in DOMAIN handlers /\ h \in Handler
      /\ \A k \in DOMAIN handlers' : k + 1 \in DOMAIN handlers /\ handlers'[k] = handlers[k + 1]
  BY <1>1
<1>3. /\ h.level \in Int /\ h.level \in LevelRange
      /\ ~nested => h.level = assigned + ups - downs
      /\ assigned \in Int /\ ups \in Nat /\ downs \in Nat
  BY <1>2 DEF LevelInv, LevelTypeOK, Handler
<1>4. /\ inqdebug' \in Int /\ inqdebug' \in LevelRange'
      /\ \A x \in Int : x \in LevelRange => x \in LevelRange'
      /\ ~nested => inqdebug' = assigned' + ups' - downs'
      /\ ups' \in Nat /\ downs' \in Nat
  BY <1>1, <1>3 DEF Changed, LevelRange
<1>5. LevelTypeOK'
  BY <1>1, <1>2, <1>4 DEF LevelInv, LevelTypeOK
<1>6. \A k \in DOMAIN handlers' : handlers'[k].loaded => handlers'[k].level \in LevelRange'
  <2>1. \A k \in DOMAIN handlers : handlers[k] \in Handler
    BY <1>1
  <2>2. \A k \in DOMAIN handlers : handlers[k].level \in Int
    BY <2>1 DEF Handler
  <2>3. QED
    BY <1>2, <1>4, <2>2 DEF LevelInv
<1>7. ASSUME ~nested' PROVE Len(handlers') <= 1 /\ DOMAIN handlers' = {}
  BY <1>1, <1>2, <1>7 DEF LevelInv
<1>8. QED
  BY <1>1, <1>4, <1>5, <1>6, <1>7 DEF LevelInv

(* The invariant holds throughout.                                         *)
THEOREM LevelInvariance == DriverSpec => []LevelInv
<1>1. LevelInv /\ [DriverNext]_driverVars => LevelInv'
  <2> SUFFICES ASSUME LevelInv, [DriverNext]_driverVars PROVE LevelInv'
    OBVIOUS
  <2>1. CASE MainStep
    BY <2>1, ReadOptionLevel, OtherLevel DEF MainStep
  <2>2. CASE \E sig \in Signals : Send(sig) \/ Deliver(sig)
    BY <2>2, DeliverLevel, OtherLevel
  <2>3. CASE sighandler
    BY <2>3, LoadLevel, StoreLevel
  <2>4. CASE UNCHANGED driverVars
    <3>1. UNCHANGED <<argv, i, j, inqdebug, handlers, history>>
      BY <2>4 DEF driverVars, signals
    <3>2. QED
      BY <3>1, Untouched DEF LevelInv, LevelTypeOK
  <2>5. QED
    BY <2>1, <2>2, <2>3, <2>4 DEF DriverNext
<1>2. QED
  BY InitLevel, <1>1, PTL DEF DriverSpec

(* Whatever signals arrive at whatever time, the level is what main and    *)
(* the handlers make it.                                                   *)
THEOREM LevelFollows == DriverSpec => []LevelFollowsSignals
<1>1. LevelInv => LevelFollowsSignals
  BY DEF LevelInv, LevelFollowsSignals, LevelRange
<1>2. QED
  BY LevelInvariance, <1>1, PTL

-----------------------------------------------------------------------------
(* The options                                                             *)

LEMMA StageNames ==
  /\ Range(Stages) = {"createDiagnostics", "FlushDiagnostics", "ExecuteAction", "llvm_shutdown",
                      "PostProcessMacros", "DumpAll", "MapComponents", "DumpDocuments"}
  /\ Head(Stages) \in Range(Stages)
  /\ \A p \in Range(Stages) : p # Stages[Len(Stages)] => Stages[StageOf(p) + 1] \in Range(Stages)
<1>1. DOMAIN Stages = 1..8 /\ Len(Stages) = 8 /\ Head(Stages) = Stages[1]
  BY DEF Stages
<1>2. Range(Stages) = {Stages[k] : k \in 1..8}
  BY <1>1 DEF Range
<1>3. \A k \in 1..8 : k = 1 \/ k = 2 \/ k = 3 \/ k = 4 \/ k = 5 \/ k = 6 \/ k = 7 \/ k = 8
  OBVIOUS
<1>4. /\ Stages[1] = "createDiagnostics" /\ Stages[2] = "FlushDiagnostics"
      /\ Stages[3] = "ExecuteAction" /\ Stages[4] = "llvm_shutdown"
      /\ Stages[5] = "PostProcessMacros" /\ Stages[6] = "DumpAll"
      /\ Stages[7] = "MapComponents" /\ Stages[8] = "DumpDocuments"
  BY DEF Stages
<1>5. Range(Stages) = {Stages[1], Stages[2], Stages[3], Stages[4], Stages[5], Stages[6],
                       Stages[7], Stages[8]}
  <2>1. {Stages[k] : k \in 1..8} = {Stages[1], Stages[2], Stages[3], Stages[4], Stages[5],
                                    Stages[6], Stages[7], Stages[8]}
    BY <1>3
  <2>2. QED
    BY <1>2, <2>1
<1>6. ASSUME NEW p \in Range(Stages), p # Stages[Len(Stages)]
      PROVE  Stages[StageOf(p) + 1] \in Range(Stages)
  <2>1. \E k \in 1..8 : Stages[k] = p
    BY <1>2
  <2>2. StageOf(p) \in 1..8 /\ Stages[StageOf(p)] = p
    BY <1>1, <2>1 DEF StageOf
  <2>3. StageOf(p) + 1 \in 1..8
    BY <1>1, <1>6, <2>2
  <2>4. QED
    BY <1>2, <2>3
<1>7. QED
  BY <1>1, <1>4, <1>5, <1>6

LEMMA CommandInit == DriverInit => CommandInv
<1> SUFFICES ASSUME DriverInit PROVE CommandInv
  OBVIOUS
<1>1. argv \in Seq(Words) /\ argv \in Commands
  BY DriverAssumption DEF DriverInit
<1>2. 1 \in 1..Len(argv) + 1
  BY <1>1
<1>3. "signal1" \notin Range(Stages)
  BY StageNames
<1>4. QED
  BY <1>1, <1>2, <1>3 DEF DriverInit, CommandInv

(* What has nothing to do with the options: signals, and the end of main.  *)
LEMMA CommandKept ==
  ASSUME CommandInv, UNCHANGED <<argv, pc, i, j, options, assigned>>,
         outcome' = "exit 1" => outcome = "exit 1"
  PROVE  CommandInv'
BY DEF CommandInv, OptionsRead, LastFlag, Flags, FirstCC, options

LEMMA InstallCommand == ASSUME CommandInv, Install PROVE CommandInv'
<1>1. /\ pc \in {"signal1", "signal2"} /\ pc' \in {"signal2", "cc"} /\ outcome' = outcome
      /\ UNCHANGED <<argv, i, j, options, assigned>> /\ outcome = "running"
  BY DEF Install, Main, history
<1>2. {"signal2", "cc"} \cap Range(Stages) = {}
  BY StageNames
<1>3. QED
  BY <1>1, <1>2 DEF CommandInv, options

LEMMA FindCommand == ASSUME CommandInv, FindCC PROVE CommandInv'
<1>1. /\ pc = "cc" /\ outcome = "running"
      /\ UNCHANGED <<argv, j, mongo_collection, arguments, assigned>>
  BY DEF FindCC, Main, history, options
<1>2. PICK k \in 1..Len(argv) + 1 :
        /\ FirstCC(k) /\ i' = k
        /\ IF k >= Len(argv) THEN outcome' = "exit 1" /\ pc' = pc
                             ELSE pc' = "options" /\ outcome' = outcome
  BY DEF FindCC
<1>3. FirstCC(i)' /\ i' \in 1..Len(argv) + 1
  BY <1>1, <1>2 DEF FirstCC
<1>4. j = 1 /\ mongo_collection = NoWord /\ assigned = 0 /\ argv \in Commands /\ Len(argv) \in Nat
  BY <1>1, DriverAssumption DEF CommandInv
<1>5. {"options", "cc"} \cap Range(Stages) = {}
  BY StageNames
<1>6. OptionsRead'
  <2>1. j' = 1 /\ mongo_collection' = NoWord /\ assigned' = 0
    BY <1>1, <1>4
  <2>2. \A flag : Flags(flag)' = {}
    BY <2>1 DEF Flags
  <2>3. QED
    BY <2>1, <2>2 DEF OptionsRead
<1>7. CASE k >= Len(argv)
  BY <1>1, <1>2, <1>3, <1>4, <1>5, <1>7 DEF CommandInv
<1>8. CASE ~(k >= Len(argv))
  <2>1. i' < Len(argv)
    BY <1>2, <1>4, <1>8
  <2>2. QED
    BY <1>1, <1>2, <1>3, <1>4, <1>5, <1>6, <1>8, <2>1 DEF CommandInv
<1>9. QED
  BY <1>7, <1>8

(* The word that is read is the last flag, if it is one.                   *)
LEMMA ReadFlag ==
  ASSUME j \in Nat, j > 0, i \in Nat, argv' = argv, i' = i, j' = j + 1,
         NEW k, k = j, NEW flag, IsOption(flag)
  PROVE  LastFlag(flag, k)'
<1>1. 1..j' - 1 = (1..j - 1) \cup {k}
  OBVIOUS
<1>2. Flags(flag)' = Flags(flag) \cup {k}
  BY <1>1 DEF Flags, IsOption
<1>3. \A m \in Flags(flag)' : m <= k
  BY <1>2 DEF Flags
<1>4. QED
  BY <1>2, <1>3 DEF LastFlag

LEMMA ReadNoFlag ==
  ASSUME j \in Nat, j > 0, i \in Nat, argv' = argv, i' = i, j' = j + 1,
         NEW flag, ~IsOption(flag)
  PROVE  /\ Flags(flag)' = Flags(flag)
         /\ \A l : LastFlag(flag, l) => LastFlag(flag, l)'
<1>1. 1..j' - 1 = (1..j - 1) \cup {j}
  OBVIOUS
<1>2. Flags(flag)' = Flags(flag)
  BY <1>1 DEF Flags, IsOption
<1>3. QED
  BY <1>2 DEF LastFlag

LEMMA ReadOptionCommand == ASSUME CommandInv, ReadOption PROVE CommandInv'
<1>1. /\ pc = "options" /\ outcome = "running" /\ j \in Nat /\ j > 0 /\ i \in Nat /\ j' = j + 1
      /\ UNCHANGED <<argv, pc, i, outcome>>
  BY DriverAssumption DEF ReadOption, Main, NextWord, CommandInv
<1>2. OptionsRead /\ FirstCC(i) /\ i < Len(argv)
  BY <1>1 DEF CommandInv
<1> PICK k : k = j
  OBVIOUS
<1>3. k \in 1..j' - 1 /\ \A l \in 1..j - 1 : l \in 1..j' - 1
  BY <1>1
<1>4. \/ Flags("-collection")' = {} /\ mongo_collection' = NoWord
      \/ \E l \in 1..j' - 1 : LastFlag("-collection", l)' /\ mongo_collection' = argv'[l + 1]
  <2>1. CASE IsOption("-collection")
    <3>1. mongo_collection' = argv'[k + 1]
      BY <1>1, <2>1 DEF ReadOption
    <3>2. LastFlag("-collection", k)'
      BY <1>1, <2>1, ReadFlag
    <3>3. QED
      BY <1>3, <3>1, <3>2
  <2>2. CASE ~IsOption("-collection")
    <3>1. mongo_collection' = mongo_collection
      BY <2>2 DEF ReadOption
    <3>2. /\ Flags("-collection")' = Flags("-collection")
          /\ \A l : LastFlag("-collection", l) => LastFlag("-collection", l)'
      BY <1>1, <2>2, ReadNoFlag
    <3>3. QED
      BY <1>1, <1>2, <1>3, <3>1, <3>2 DEF OptionsRead
  <2>3. QED
    BY <2>1, <2>2
<1>5. \/ Flags("-d")' = {} /\ assigned' = 0
      \/ \E l \in 1..j' - 1 : LastFlag("-d", l)' /\ assigned' = atoi[argv'[l + 1]]
  <2>1. CASE IsOption("-d")
    <3>1. assigned' = atoi[argv'[k + 1]]
      BY <1>1, <2>1 DEF ReadOption
    <3>2. LastFlag("-d", k)'
      BY <1>1, <2>1, ReadFlag
    <3>3. QED
      BY <1>3, <3>1, <3>2
  <2>2. CASE ~IsOption("-d")
    <3>1. assigned' = assigned
      BY <2>2 DEF ReadOption, history
    <3>2. /\ Flags("-d")' = Flags("-d")
          /\ \A l : LastFlag("-d", l) => LastFlag("-d", l)'
      BY <1>1, <2>2, ReadNoFlag
    <3>3. QED
      BY <1>1, <1>2, <1>3, <3>1, <3>2 DEF OptionsRead
  <2>3. QED
    BY <2>1, <2>2
<1>6. OptionsRead'
  BY <1>4, <1>5 DEF OptionsRead, LastFlag, Flags
<1>7. FirstCC(i)' /\ pc \notin Range(Stages)
  BY <1>1, <1>2, StageNames DEF FirstCC
<1>8. j' \in Nat \ {0}
  BY <1>1
<1>9. QED
  BY <1>1, <1>2, <1>6, <1>7, <1>8 DEF CommandInv

LEMMA CreateFromArgsCommand == ASSUME CommandInv, CreateFromArgs PROVE CommandInv'
<1>1. /\ pc = "options" /\ outcome = "running" /\ j >= i
      /\ arguments' = SubSeq(argv, i + 1, Len(argv)) /\ pc' \in Range(Stages)
      /\ UNCHANGED <<argv, i, j, mongo_collection, assigned, outcome>>
  BY StageNames DEF CreateFromArgs, Main, history
<1>2. pc' \notin {"signal1", "signal2", "cc"}
  BY <1>1, StageNames
<1>3. FirstCC(i)' /\ i < Len(argv)
  BY <1>1 DEF CommandInv, FirstCC
<1>4. OptionsRead'
  BY <1>1 DEF CommandInv, OptionsRead, LastFlag, Flags
<1>5. QED
  BY <1>1, <1>2, <1>3, <1>4 DEF CommandInv

LEMMA StageCommand == ASSUME CommandInv, Stage PROVE CommandInv'
<1>1. /\ pc \in Range(Stages) /\ outcome = "running" /\ outcome' # "exit 1"
      /\ pc' \in Range(Stages) /\ UNCHANGED <<argv, i, j, options, assigned>>
  BY StageNames DEF Stage, Main, history
<1>2. pc' \notin {"signal1", "signal2", "cc"}
  BY <1>1, StageNames
<1>3. FirstCC(i)' /\ i < Len(argv)
  BY <1>1 DEF CommandInv, FirstCC
<1>4. OptionsRead'
  BY <1>1 DEF CommandInv, OptionsRead, LastFlag, Flags, options
<1>5. QED
  BY <1>1, <1>2, <1>3, <1>4 DEF CommandInv, options

LEMMA CommandStep == CommandInv /\ [DriverNext]_driverVars => CommandInv'
<1> SUFFICES ASSUME CommandInv, [DriverNext]_driverVars PROVE CommandInv'
  OBVIOUS
<1>1. CASE Install \/ FindCC \/ ReadOption \/ CreateFromArgs \/ Stage
  BY <1>1, InstallCommand, FindCommand, ReadOptionCommand, CreateFromArgsCommand, StageCommand
<1>2. CASE LLVMErrorHandler \/ (\E sig \in Signals : Send(sig) \/ Deliver(sig)) \/ sighandler
  <2>1. /\ UNCHANGED <<argv, pc, i, j, options, assigned>>
        /\ outcome' = "exit 1" => outcome = "exit 1"
    BY <1>2 DEF LLVMErrorHandler, Send, Deliver, sighandler, history
  <2>2. QED
    BY <2>1, CommandKept
<1>3. CASE UNCHANGED driverVars
  BY <1>3, CommandKept DEF driverVars, history
<1>4. QED
  BY <1>1, <1>2, <1>3 DEF DriverNext, MainStep

(* The option parser's invariant holds throughout.                         *)
THEOREM CommandInvariance == DriverSpec => []CommandInv
BY CommandInit, CommandStep, PTL DEF DriverSpec

(* A command line that is D, -cc and the rest.                             *)
LEMMA SplitAtCC ==
  ASSUME NEW S, NEW D \in Seq(S), NEW rest \in Seq(S), "-cc" \in S, NEW a, a = D \o <<"-cc">> \o rest
  PROVE  /\ a \in Seq(S) /\ Len(a) = Len(D) + 1 + Len(rest)
         /\ \A l \in 1..Len(D) : a[l] = D[l]
         /\ a[Len(D) + 1] = "-cc"
<1>1. <<"-cc">> \in Seq(S) /\ Len(<<"-cc">>) = 1 /\ <<"-cc">>[1] = "-cc"
  OBVIOUS
<1>2. /\ D \o <<"-cc">> \in Seq(S) /\ Len(D \o <<"-cc">>) = Len(D) + 1
      /\ \A l \in 1..Len(D) : (D \o <<"-cc">>)[l] = D[l]
      /\ (D \o <<"-cc">>)[Len(D) + 1] = "-cc"
  BY <1>1, ConcatProperties
<1>3. QED
  BY <1>2, ConcatProperties

(* Main stops at the first -cc.                                            *)
LEMMA FirstIsThere ==
  ASSUME FirstCC(i), i \in 1..Len(argv) + 1, Len(argv) \in Nat,
         NEW k \in Nat, k < Len(argv), argv[k] = "-cc", \A l \in 1..k - 1 : argv[l] # "-cc", k > 0
  PROVE  i = k
<1>1. ~(i < k)
  <2>1. SUFFICES ASSUME i < k PROVE FALSE
    OBVIOUS
  <2>2. i \in 1..k - 1 /\ i <= Len(argv)
    BY <2>1
  <2>3. argv[i] = "-cc" /\ argv[i] # "-cc"
    BY <2>2 DEF FirstCC
  <2>4. QED
    BY <2>3
<1>2. ~(k < i)
  <2>1. SUFFICES ASSUME k < i PROVE FALSE
    OBVIOUS
  <2>2. k \in 1..i - 1
    BY <2>1
  <2>3. QED
    BY <2>2 DEF FirstCC
<1>3. QED
  BY <1>1, <1>2

(* Behind -cc no flag is taken.                                            *)
LEMMA FlagsBeforeCC ==
  ASSUME i \in Nat, j \in Nat, j >= i
  PROVE  \A flag : Flags(flag) = {l \in 1..i - 2 : argv[l] = flag}
BY DEF Flags

LEMMA CommandTypes ==
  ASSUME CommandInv
  PROVE  /\ argv \in Seq(Words) /\ Len(argv) \in Nat
         /\ i \in 1..Len(argv) + 1 /\ i \in Nat /\ j \in Nat
<1>1. argv \in Commands /\ i \in 1..Len(argv) + 1 /\ j \in Nat \ {0}
  BY DEF CommandInv
<1>2. argv \in Seq(Words)
  BY <1>1, DriverAssumption
<1>3. QED
  BY <1>1, <1>2

LEMMA NumbersBelow ==
  ASSUME NEW k
  PROVE  /\ k = 1 => 1..k - 1 = {} /\ 1..k - 2 = {}
         /\ k = 3 => 1..k - 1 = {1, 2} /\ 1..k - 2 = {1}
         /\ k = 5 => 1..k - 1 = {1, 2, 3, 4} /\ 1..k - 2 = {1, 2, 3}
OBVIOUS

LEMMA LessIsNotMore == \A a, b \in Nat : a < b => ~(a >= b)
OBVIOUS

(* Of the flags with a value before -cc main has taken the last one.       *)
LEMMA ReadUpToCC ==
  ASSUME CommandInv, pc \in Range(Stages) \/ outcome = "exit 1",
         NEW k \in Nat, k > 0, k < Len(argv),
         argv[k] = "-cc", \A l \in 1..k - 1 : argv[l] # "-cc"
  PROVE  /\ outcome # "exit 1" /\ arguments = SubSeq(argv, k + 1, Len(argv))
         /\ OptionsRead
         /\ \A flag : Flags(flag) = {l \in 1..k - 2 : argv[l] = flag}
<1>1. i \in 1..Len(argv) + 1 /\ j \in Nat /\ Len(argv) \in Nat /\ i \in Nat
  BY CommandTypes
<1>2. FirstCC(i)
  BY DEF CommandInv
<1>3. i = k
  BY <1>1, <1>2, FirstIsThere
<1>4. ~(i >= Len(argv))
  BY <1>1, <1>3, LessIsNotMore, Zenon
<1>5. outcome # "exit 1"
  BY <1>4 DEF CommandInv
<1>6. pc \in Range(Stages) /\ j >= i /\ arguments = SubSeq(argv, i + 1, Len(argv)) /\ OptionsRead
  BY <1>5 DEF CommandInv
<1>7. \A flag : Flags(flag) = {l \in 1..i - 2 : argv[l] = flag}
  BY <1>1, <1>6, FlagsBeforeCC
<1>8. QED
  BY <1>3, <1>5, <1>6, <1>7

LEMMA LastFlagValue ==
  ASSUME OptionsRead, j \in Nat, NEW c \in Nat, NEW d \in Nat
  PROVE  /\ Flags("-collection") = {} => mongo_collection = NoWord
         /\ LastFlag("-collection", c) => mongo_collection = argv[c + 1]
         /\ Flags("-d") = {} => assigned = 0
         /\ LastFlag("-d", d) => assigned = atoi[argv[d + 1]]
<1>1. ASSUME NEW flag, NEW l \in Nat, NEW m \in Nat, LastFlag(flag, l), LastFlag(flag, m) PROVE l = m
  BY <1>1 DEF LastFlag
<1>2. \A flag : \A l : LastFlag(flag, l) => l \in Flags(flag) /\ l \in Nat
  BY DEF LastFlag, Flags
<1>3. (Flags("-collection") = {} => mongo_collection = NoWord)
      /\ (LastFlag("-collection", c) => mongo_collection = argv[c + 1])
  BY <1>1, <1>2 DEF OptionsRead
<1>4. (Flags("-d") = {} => assigned = 0)
      /\ (LastFlag("-d", d) => assigned = atoi[argv[d + 1]])
  BY <1>1, <1>2 DEF OptionsRead
<1>5. QED
  BY <1>3, <1>4

LEMMA OptionWords ==
  ASSUME NEW S, NEW flag \in S, NEW w \in S
  PROVE  /\ Option(flag, w) \in Seq(S)
         /\ w = NoWord => Len(Option(flag, w)) = 0
         /\ w # NoWord => /\ Len(Option(flag, w)) = 2
                          /\ Option(flag, w)[1] = flag /\ Option(flag, w)[2] = w
<1>1. <<>> \in Seq(S) /\ Len(<<>>) = 0
  OBVIOUS
<1>2. /\ <<flag, w>> \in Seq(S) /\ Len(<<flag, w>>) = 2
      /\ <<flag, w>>[1] = flag /\ <<flag, w>>[2] = w
  OBVIOUS
<1>3. CASE w = NoWord
  <2>1. Option(flag, w) = <<>>
    BY <1>3 DEF Option
  <2>2. QED
    BY <1>1, <1>3, <2>1
<1>4. CASE w # NoWord
  <2>1. Option(flag, w) = <<flag, w>>
    BY <1>4 DEF Option
  <2>2. QED
    BY <1>2, <1>4, <2>1
<1>5. QED
  BY <1>3, <1>4

(* The words of two options, one behind the other.                         *)
LEMMA OptionsWords ==
  ASSUME NEW S, NEW A \in Seq(S), NEW B \in Seq(S)
  PROVE  /\ A \o B \in Seq(S)
         /\ Len(A) = 0 /\ Len(B) = 0 => Len(A \o B) = 0
         /\ Len(A) = 2 /\ Len(B) = 0 => Len(A \o B) = 2 /\ (A \o B)[1] = A[1] /\ (A \o B)[2] = A[2]
         /\ Len(A) = 0 /\ Len(B) = 2 => Len(A \o B) = 2 /\ (A \o B)[1] = B[1] /\ (A \o B)[2] = B[2]
         /\ Len(A) = 2 /\ Len(B) = 2 => /\ Len(A \o B) = 4
                                       /\ (A \o B)[1] = A[1] /\ (A \o B)[2] = A[2]
                                       /\ (A \o B)[3] = B[1] /\ (A \o B)[4] = B[2]
<1>1. /\ A \o B \in Seq(S) /\ Len(A \o B) = Len(A) + Len(B)
      /\ \A l \in 1..Len(A) + Len(B) : (A \o B)[l] = IF l <= Len(A) THEN A[l] ELSE B[l - Len(A)]
      /\ Len(A) \in Nat /\ Len(B) \in Nat
  BY ConcatProperties, LenProperties
<1>2. CASE Len(A) = 0 /\ Len(B) = 0
  BY <1>1, <1>2
<1>3. CASE Len(A) = 2 /\ Len(B) = 0
  BY <1>1, <1>3
<1>4. CASE Len(A) = 0 /\ Len(B) = 2
  BY <1>1, <1>4
<1>5. CASE Len(A) = 2 /\ Len(B) = 2
  BY <1>1, <1>5
<1>6. QED
  BY <1>1, <1>2, <1>3, <1>4, <1>5

LEMMA WordsBehind ==
  ASSUME NEW S, NEW a \in Seq(S), NEW k \in 1..Len(a)
  PROVE  SubSeq(a, k + 1, Len(a)) \in Seq(S) /\ Len(SubSeq(a, k + 1, Len(a))) = Len(a) - k
<1>1. Len(a) \in Nat /\ k \in Nat /\ k <= Len(a)
  BY LenProperties
<1>2. \A l \in k + 1..Len(a) : a[l] \in S
  BY <1>1, ElementOfSeq
<1>3. /\ SubSeq(a, k + 1, Len(a)) \in Seq(S)
      /\ Len(SubSeq(a, k + 1, Len(a))) = IF k + 1 <= Len(a) THEN Len(a) - (k + 1) + 1 ELSE 0
  <2>1. k + 1 \in Int /\ Len(a) \in Int
    BY <1>1
  <2>2. QED
    BY <1>2, <2>1, SubSeqProperties
<1>4. QED
  BY <1>1, <1>3

(* Where -cc is.                                                           *)
LEMMA PlaceOfCC ==
  ASSUME NEW S, NEW D \in Seq(S), NEW rest \in Seq(S), rest # <<>>,
         NEW a \in Seq(S), NEW k \in 1..Len(a),
         Len(rest) = Len(a) - k, Len(a) = Len(D) + 1 + Len(rest)
  PROVE  k = Len(D) + 1 /\ k < Len(a) /\ k \in Nat /\ k > 0
<1>1. Len(D) \in Nat /\ Len(a) \in Nat /\ Len(rest) \in Nat /\ Len(rest) # 0
  BY LenProperties, EmptySeq
<1>2. QED
  BY <1>1

(* The options are what the command line says in the order of the manual.  *)
THEOREM OptionsAsDocumented == DriverSpec => []OptionsOfSynopsis
<1>1. ASSUME CommandInv, pc \in Range(Stages) \/ outcome = "exit 1",
             NEW n \in (Words \cup {NoWord}) \ {"-cc"},
             NEW v \in (Words \cup {NoWord}) \ {"-cc"},
             NEW k \in 1..Len(argv),
             argv = Option("-collection", n) \o Option("-d", v) \o <<"-cc">>
                      \o SubSeq(argv, k + 1, Len(argv)),
             SubSeq(argv, k + 1, Len(argv)) # <<>>,
             n # "-collection" \/ v = NoWord
      PROVE  /\ outcome # "exit 1"
             /\ mongo_collection = n
             /\ assigned = IF v = NoWord THEN 0 ELSE atoi[v]
             /\ arguments = SubSeq(argv, k + 1, Len(argv))
  <2>1. argv \in Seq(Words) /\ j \in Nat
    BY <1>1, CommandTypes
  <2>2. /\ k \in Nat /\ k > 0 /\ k < Len(argv) /\ argv[k] = "-cc"
        /\ n = NoWord /\ v = NoWord => k = 1
        /\ n # NoWord /\ v = NoWord => k = 3 /\ argv[1] = "-collection" /\ argv[2] = n
        /\ n = NoWord /\ v # NoWord => k = 3 /\ argv[1] = "-d" /\ argv[2] = v
        /\ n # NoWord /\ v # NoWord => /\ k = 5 /\ argv[1] = "-collection" /\ argv[2] = n
                                      /\ argv[3] = "-d" /\ argv[4] = v
    <3> DEFINE S == Words \cup {NoWord, "-cc", "-collection", "-d"}
               A == Option("-collection", n)
               B == Option("-d", v)
               rest == SubSeq(argv, k + 1, Len(argv))
    <3>1. "-cc" \in S /\ "-collection" \in S /\ "-d" \in S /\ Words \subseteq S /\ n \in S /\ v \in S
      OBVIOUS
    <3> HIDE DEF S
    <3>2. /\ A \in Seq(S) /\ B \in Seq(S)
          /\ n = NoWord => Len(A) = 0
          /\ n # NoWord => Len(A) = 2 /\ A[1] = "-collection" /\ A[2] = n
          /\ v = NoWord => Len(B) = 0
          /\ v # NoWord => Len(B) = 2 /\ B[1] = "-d" /\ B[2] = v
      BY <3>1, OptionWords
    <3>3. argv \in Seq(S)
      BY <2>1, <3>1, SeqMonotonic
    <3>4. rest \in Seq(S) /\ Len(rest) = Len(argv) - k
      BY <3>3, WordsBehind
    <3>5. /\ Len(argv) = Len(A \o B) + 1 + Len(rest)
          /\ \A l \in 1..Len(A \o B) : argv[l] = (A \o B)[l]
          /\ argv[Len(A \o B) + 1] = "-cc"
      <4>1. argv = A \o B \o <<"-cc">> \o rest /\ rest # <<>>
        BY <1>1
      <4>2. A \o B \in Seq(S)
        BY <3>2, ConcatProperties
      <4> HIDE DEF A, B, rest
      <4>3. PICK D : D = A \o B
        OBVIOUS
      <4>4. D \in Seq(S) /\ argv = D \o <<"-cc">> \o rest
        BY <4>1, <4>2, <4>3, Zenon
      <4>5. rest \in Seq(S) /\ "-cc" \in S
        BY <3>1, <3>4, Zenon
      <4>6. /\ Len(argv) = Len(D) + 1 + Len(rest)
            /\ \A l \in 1..Len(D) : argv[l] = D[l]
            /\ argv[Len(D) + 1] = "-cc"
        BY <4>4, <4>5, SplitAtCC
      <4>7. QED
        BY <4>3, <4>6, Zenon
    <3>6. rest # <<>> /\ k \in 1..Len(argv)
      BY <1>1
    <3>7. A \in Seq(S) /\ B \in Seq(S) /\ rest \in Seq(S) /\ Len(rest) = Len(argv) - k
      BY <3>2, <3>4, Zenon
    <3>8. /\ Len(argv) = Len(A \o B) + 1 + Len(rest)
           /\ \A l \in 1..Len(A \o B) : argv[l] = (A \o B)[l]
      BY <3>5, Zenon
    <3> HIDE DEF A, B, rest
    <3>9. /\ k = Len(A \o B) + 1 /\ k \in Nat /\ k > 0 /\ k < Len(argv)
          /\ Len(A) = 0 /\ Len(B) = 0 => k = 1
          /\ Len(A) = 2 /\ Len(B) = 0 => k = 3 /\ argv[1] = A[1] /\ argv[2] = A[2]
          /\ Len(A) = 0 /\ Len(B) = 2 => k = 3 /\ argv[1] = B[1] /\ argv[2] = B[2]
          /\ Len(A) = 2 /\ Len(B) = 2 => /\ k = 5 /\ argv[1] = A[1] /\ argv[2] = A[2]
                                        /\ argv[3] = B[1] /\ argv[4] = B[2]
      <4>1. A \o B \in Seq(S)
        BY <3>7, OptionsWords
      <4>2. k = Len(A \o B) + 1 /\ k < Len(argv) /\ k \in Nat /\ k > 0
        BY <3>3, <3>6, <3>7, <3>8, <4>1, PlaceOfCC
      <4>3. /\ 0 + 1 = 1 /\ 2 + 1 = 3 /\ 4 + 1 = 5 /\ 1 \in 1..2 /\ 2 \in 1..2
            /\ 1 \in 1..4 /\ 2 \in 1..4 /\ 3 \in 1..4 /\ 4 \in 1..4
        BY SMT
      <4>4. CASE Len(A) = 0 /\ Len(B) = 0
        BY <3>7, <4>2, <4>3, <4>4, OptionsWords
      <4>5. CASE Len(A) = 2 /\ Len(B) = 0
        BY <3>7, <3>8, <4>2, <4>3, <4>5, OptionsWords
      <4>6. CASE Len(A) = 0 /\ Len(B) = 2
        BY <3>7, <3>8, <4>2, <4>3, <4>6, OptionsWords
      <4>7. CASE Len(A) = 2 /\ Len(B) = 2
        BY <3>7, <3>8, <4>2, <4>3, <4>7, OptionsWords
      <4>8. QED
        BY <4>2, <4>4, <4>5, <4>6, <4>7
    <3>10. QED
      BY <3>2, <3>5, <3>9, Zenon
  <2>3. \A l \in 1..k - 1 : argv[l] # "-cc"
    <3>1. CASE n = NoWord /\ v = NoWord
      <4>1. 1..k - 1 = {}
        BY <2>2, <3>1, NumbersBelow, Zenon
      <4>2. QED
        BY <4>1, Zenon
    <3>2. CASE n # NoWord /\ v = NoWord
      <4>1. 1..k - 1 = {1, 2}
        BY <2>2, <3>2, NumbersBelow, Zenon
      <4>2. QED
        BY <1>1, <2>2, <3>2, <4>1
    <3>3. CASE n = NoWord /\ v # NoWord
      <4>1. 1..k - 1 = {1, 2}
        BY <2>2, <3>3, NumbersBelow, Zenon
      <4>2. QED
        BY <1>1, <2>2, <3>3, <4>1
    <3>4. CASE n # NoWord /\ v # NoWord
      <4>1. 1..k - 1 = {1, 2, 3, 4}
        BY <2>2, <3>4, NumbersBelow, Zenon
      <4>2. QED
        BY <1>1, <2>2, <3>4, <4>1
    <3>5. QED
      BY <3>1, <3>2, <3>3, <3>4, Zenon
  <2>4. /\ outcome # "exit 1" /\ arguments = SubSeq(argv, k + 1, Len(argv))
        /\ OptionsRead
        /\ \A flag : Flags(flag) = {l \in 1..k - 2 : argv[l] = flag}
    BY <1>1, <2>2, <2>3, ReadUpToCC
  <2>5. mongo_collection = n /\ assigned = IF v = NoWord THEN 0 ELSE atoi[v]
    <3>1. CASE n = NoWord /\ v = NoWord
      <4>1. 1..k - 2 = {}
        BY <2>2, <3>1, NumbersBelow, Zenon
      <4>2. Flags("-collection") = {} /\ Flags("-d") = {}
        BY <2>4, <4>1
      <4>3. QED
        BY <2>1, <2>4, <3>1, <4>2, LastFlagValue
    <3>2. CASE n # NoWord /\ v = NoWord
      <4>1. 1..k - 2 = {1}
        BY <2>2, <3>2, NumbersBelow, Zenon
      <4>2. \A flag : Flags(flag) = {l \in {1} : argv[l] = flag}
        BY <2>4, <4>1, Zenon
      <4>3. LastFlag("-collection", 1) /\ Flags("-d") = {} /\ argv[1 + 1] = n
        BY <2>2, <3>2, <4>2 DEF LastFlag
      <4>4. QED
        BY <2>1, <2>4, <3>2, <4>3, LastFlagValue
    <3>3. CASE n = NoWord /\ v # NoWord
      <4>1. 1..k - 2 = {1}
        BY <2>2, <3>3, NumbersBelow, Zenon
      <4>2. \A flag : Flags(flag) = {l \in {1} : argv[l] = flag}
        BY <2>4, <4>1, Zenon
      <4>3. LastFlag("-d", 1) /\ Flags("-collection") = {} /\ argv[1 + 1] = v
        BY <2>2, <3>3, <4>2 DEF LastFlag
      <4>4. QED
        BY <2>1, <2>4, <3>3, <4>3, LastFlagValue
    <3>4. CASE n # NoWord /\ v # NoWord
      <4>1. 1..k - 2 = {1, 2, 3}
        BY <2>2, <3>4, NumbersBelow, Zenon
      <4>2. \A flag : Flags(flag) = {l \in {1, 2, 3} : argv[l] = flag}
        BY <2>4, <4>1, Zenon
      <4>3. /\ n # "-collection" /\ argv[1] = "-collection" /\ argv[2] = n
            /\ argv[3] = "-d" /\ argv[4] = v
        BY <1>1, <2>2, <3>4, Zenon
      <4>4. LastFlag("-collection", 1)
        BY <4>2, <4>3 DEF LastFlag
      <4>5. LastFlag("-d", 3)
        BY <4>2, <4>3 DEF LastFlag
      <4>6. mongo_collection = argv[1 + 1] /\ assigned = atoi[argv[3 + 1]]
        BY <2>1, <2>4, <4>4, <4>5, LastFlagValue
      <4>7. QED
        BY <3>4, <4>3, <4>6
    <3>5. QED
      BY <3>1, <3>2, <3>3, <3>4
  <2>6. QED
    BY <2>4, <2>5
<1>2. CommandInv => OptionsOfSynopsis
  BY <1>1, Zenon DEF OptionsOfSynopsis
<1>3. QED
  BY CommandInvariance, <1>2, PTL
=============================================================================
