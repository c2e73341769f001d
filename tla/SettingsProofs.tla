--------------------------- MODULE SettingsProofs ---------------------------
(***************************************************************************)
(* An answer "done" is true: proved for every set of commands and whether  *)
(* or not the table could be read at power-on.                             *)
(***************************************************************************)
EXTENDS Settings, TLAPS

\* Where there is no doubt the table is the flash.
TableTrue == \A i \in FlipItems \ doubt : table[i] = flash[i]

\* What was surely read is still what the flash holds when it is compared; the video task
\* can only have taken the flag back meanwhile.
SureIsTrue ==
    sure => /\ at \in {"print", "set"}
            /\ cmd = "flicker" => seen = flash[item]
            /\ cmd = "flip" => item = "tb" /\ flag[item] \in {flash[item], None}

\* The flag that is printed into the table is what was read, or taken back.
PrintedWasRead == at = "print" => flag[item] \in {flash.tb, None}

CommandKnown == at # "idle" => cmd \in {"flip", "flicker"}

IInv == TypeOK /\ TableTrue /\ SureIsTrue /\ PrintedWasRead /\ CommandKnown

Entries == [FlipItems -> Flips \cup {None}]

\* Before anything is set or raised.
LEMMA NothingSet ==
    /\ NotSet \in Setting /\ NotSet \in Requests
    /\ Nothing \in Entries /\ Nothing \in [FlipItems -> Flips \cup {None, Invalid}]
BY DEF NotSet, Nothing, Setting, Requests, Entries, Flips, FlipItems

LEMMA SettingIsEntries == Setting \subseteq Entries
BY DEF Setting, Entries, Flips, FlipItems

LEMMA InitInv == Init => IInv
<1> SUFFICES ASSUME Init PROVE IInv
  OBVIOUS
<1>1. TypeOK
  BY NothingSet, SettingIsEntries DEF Init, TypeOK, Entries, FlipItems
<1>2. TableTrue /\ SureIsTrue /\ PrintedWasRead /\ CommandKnown
  BY DEF Init, TableTrue, SureIsTrue, PrintedWasRead, CommandKnown
<1> QED
  BY <1>1, <1>2 DEF IInv

LEMMA SettingAt ==
    ASSUME NEW f \in Setting, NEW i \in FlipItems
    PROVE  f[i] \in Flips
BY DEF Setting, Flips, FlipItems

\* What doorbell_cfg_get_item does to the table.
LEMMA EnterInv ==
    ASSUME TypeOK, TableTrue, NEW i \in FlipItems, NEW v \in Flips \cup {None},
           Enter(i, v), flash' = flash
    PROVE  table' \in Entries /\ doubt' \in SUBSET FlipItems /\ TableTrue'
<1>1. table' \in Entries /\ table'[i] = v
      /\ \A j \in FlipItems \ {i} : table'[j] = table[j]
  BY DEF TypeOK, Enter, Entries
<1>2. doubt' = (IF v = flash[i] THEN doubt \ {i} ELSE doubt \cup {i})
      /\ doubt \in SUBSET FlipItems
  BY DEF Enter, TypeOK
<1>3. TableTrue'
  BY <1>1, <1>2 DEF TableTrue
<1> QED
  BY <1>1, <1>2, <1>3

LEMMA RefreshInv ==
    ASSUME TypeOK, TableTrue, NEW i \in FlipItems, Refresh(i)
    PROVE  table' \in Entries /\ flash' = flash /\ doubt' \in SUBSET FlipItems /\ TableTrue'
<1>1. flash[i] \in Flips \cup {None} /\ Enter(i, flash[i]) /\ flash' = flash
  BY SettingAt DEF TypeOK, Refresh
<1> QED
  BY <1>1, EnterInv

LEMMA ArgTyped == TypeOK => arg[item] \in Flips \cup {Invalid}
BY DEF TypeOK, Requests, FlipItems

-----------------------------------------------------------------------------
(* The steps of the command task *)

LEMMA NewCommandInv == IInv /\ NewCommand => IInv'
<1> SUFFICES ASSUME IInv, NewCommand PROVE IInv'
  OBVIOUS
<1>1. TypeOK'
  BY AskedAssumption DEF IInv, TypeOK, NewCommand, FlipCommand, FlickerCommand, store, videoVars
<1>2. TableTrue'
  BY DEF IInv, TableTrue, NewCommand, FlipCommand, FlickerCommand, store
<1>3. SureIsTrue' /\ PrintedWasRead' /\ CommandKnown'
  BY DEF IInv, SureIsTrue, PrintedWasRead, CommandKnown, NewCommand, FlipCommand, FlickerCommand, store
<1> QED
  BY <1>1, <1>2, <1>3 DEF IInv

LEMMA GetCommandInv == IInv /\ GetCommand => IInv'
<1> SUFFICES ASSUME IInv, GetCommand PROVE IInv'
  OBVIOUS
<1>1. PICK i \in FlipItems : Refresh(i)
  BY DEF GetCommand
<1>2. table' \in Entries /\ flash' = flash /\ doubt' \in SUBSET FlipItems /\ TableTrue'
  BY <1>1, RefreshInv DEF IInv
<1>3. TypeOK'
  BY <1>2 DEF IInv, TypeOK, Entries, GetCommand, cmdVars, videoVars
<1>4. SureIsTrue' /\ PrintedWasRead' /\ CommandKnown'
  BY DEF IInv, SureIsTrue, PrintedWasRead, CommandKnown, GetCommand, cmdVars
<1> QED
  BY <1>2, <1>3, <1>4 DEF IInv

LEMMA GetFlipInv == IInv /\ GetFlip => IInv'
<1> SUFFICES ASSUME IInv, GetFlip PROVE IInv'
  OBVIOUS
<1>1. item \in FlipItems /\ flash \in Setting /\ flash[item] \in Flips
  BY SettingAt DEF IInv, TypeOK
<1>2. table' \in Entries /\ flash' = flash /\ doubt' \in SUBSET FlipItems /\ TableTrue'
  <2>1. CASE Refresh(item)
    BY <1>1, <2>1, RefreshInv DEF IInv
  <2>2. CASE ReadingFails
    BY <2>2 DEF IInv, TypeOK, Entries, TableTrue, ReadingFails, store
  <2> QED
    BY <2>1, <2>2 DEF GetFlip
<1>3. TypeOK'
  BY <1>1, <1>2 DEF IInv, TypeOK, Entries, GetFlip, videoVars
<1>4. SureIsTrue' /\ PrintedWasRead' /\ CommandKnown'
  BY <1>2 DEF IInv, SureIsTrue, PrintedWasRead, CommandKnown, GetFlip
<1> QED
  BY <1>2, <1>3, <1>4 DEF IInv

LEMMA GetFlipIntoFlagInv == IInv /\ GetFlipIntoFlag => IInv'
<1> SUFFICES ASSUME IInv, GetFlipIntoFlag PROVE IInv'
  OBVIOUS
<1>1. item \in FlipItems /\ flash.tb \in Flips
  BY SettingAt DEF IInv, TypeOK, FlipItems
<1>2. UNCHANGED <<flash, table, doubt, item>> /\ cmd' = "flip"
  BY DEF GetFlipIntoFlag, store
<1>3. CASE /\ at' = "print" /\ flag' = [flag EXCEPT ![item] = flash.tb]
           /\ sure' = (item = "tb")
  <2>1. /\ flag' \in [FlipItems -> Flips \cup {None, Invalid}]
        /\ flag'[item] = flash.tb
    BY <1>1, <1>3 DEF IInv, TypeOK
  <2>2. sure' \in BOOLEAN
    BY <1>3
  <2>3. TypeOK'
    BY <1>3, <2>1, <2>2 DEF IInv, TypeOK, GetFlipIntoFlag, store, videoVars
  <2>4. SureIsTrue' /\ PrintedWasRead' /\ CommandKnown'
    <3>1. sure' => item = "tb" /\ flash.tb = flash[item]
      BY <1>3
    <3> QED
      BY <1>2, <1>3, <2>1, <3>1 DEF SureIsTrue, PrintedWasRead, CommandKnown
  <2> QED
    BY <1>2, <2>3, <2>4 DEF IInv, TableTrue
<1>4. CASE at' = "set" /\ flag' = flag /\ sure' = FALSE
  <2>1. TypeOK'
    BY <1>4 DEF IInv, TypeOK, GetFlipIntoFlag, store, videoVars
  <2> QED
    BY <1>2, <1>4, <2>1 DEF IInv, TableTrue, SureIsTrue, PrintedWasRead, CommandKnown
<1> QED
  BY <1>3, <1>4 DEF GetFlipIntoFlag

LEMMA PrintFlagInv == IInv /\ PrintFlag => IInv'
<1> SUFFICES ASSUME IInv, PrintFlag PROVE IInv'
  OBVIOUS
<1>1. "tb" \in FlipItems /\ flag[item] \in Flips \cup {None}
  BY SettingAt DEF IInv, TypeOK, PrintedWasRead, PrintFlag, FlipItems
<1>2. table' \in Entries /\ doubt' \in SUBSET FlipItems /\ TableTrue'
  BY <1>1, EnterInv DEF IInv, PrintFlag
<1>3. TypeOK'
  BY <1>2 DEF IInv, TypeOK, Entries, PrintFlag, videoVars
<1>4. SureIsTrue' /\ PrintedWasRead' /\ CommandKnown'
  BY DEF IInv, SureIsTrue, PrintedWasRead, CommandKnown, PrintFlag
<1> QED
  BY <1>2, <1>3, <1>4 DEF IInv

\* What ends the handling of one flip.
LEMMA NextFlipTyped ==
    ASSUME TypeOK, NextFlip
    PROVE  item' \in FlipItems /\ at' \in {"get", "answer"}
BY DEF TypeOK, NextFlip, FlipItems

LEMMA FlipUnchangedInv == IInv /\ FlipUnchanged => IInv'
<1> SUFFICES ASSUME IInv, FlipUnchanged PROVE IInv'
  OBVIOUS
<1>1. item' \in FlipItems /\ at' \in {"get", "answer"}
  BY NextFlipTyped DEF IInv, FlipUnchanged
<1>2. sure' = FALSE /\ seen' = None
  BY DEF FlipUnchanged, Forget
<1>3. TypeOK'
  BY <1>1, <1>2 DEF IInv, TypeOK, FlipUnchanged, store, videoVars
<1>4. TableTrue' /\ SureIsTrue' /\ PrintedWasRead' /\ CommandKnown'
  BY <1>1, <1>2 DEF IInv, TableTrue, SureIsTrue, PrintedWasRead, CommandKnown, FlipUnchanged,
                    store
<1> QED
  BY <1>3, <1>4 DEF IInv

LEMMA SetItemInv ==
    ASSUME TypeOK, NEW i \in FlipItems, NEW v, SetInRange(i, v)
    PROVE  /\ flash' \in Setting /\ table' \in Entries /\ ok' \in BOOLEAN
           /\ \/ flash' = flash /\ table' = table
              \/ /\ flash'[i] = v /\ table'[i] = v
                 /\ \A j \in FlipItems \ {i} : flash'[j] = flash[j] /\ table'[j] = table[j]
<1>0. flash \in Setting /\ table \in Entries
  BY DEF TypeOK, Entries
<1>1. CASE UNCHANGED store
  <2>1. ok' \in BOOLEAN
    BY DEF SetInRange, SetItem
  <2> QED
    BY <1>0, <1>1, <2>1 DEF store
<1>2. CASE /\ v \in Flips
           /\ flash' = [flash EXCEPT ![i] = v]
           /\ table' = [table EXCEPT ![i] = v] /\ ok' = TRUE
  BY <1>0, <1>2 DEF Setting, Entries, Flips, FlipItems
<1> QED
  BY <1>1, <1>2 DEF SetInRange, SetItem

LEMMA SetFlipInv == IInv /\ SetFlip => IInv'
<1> SUFFICES ASSUME IInv, SetFlip PROVE IInv'
  OBVIOUS
<1>1. TypeOK /\ item \in FlipItems /\ SetInRange(item, arg[item])
  BY DEF IInv, TypeOK, SetFlip
<1>2. flash' \in Setting /\ table' \in Entries /\ ok' \in BOOLEAN
  BY <1>1, SetItemInv
<1>3. doubt' \in SUBSET FlipItems
  BY DEF IInv, TypeOK, SetFlip
<1>4. sure' = FALSE /\ seen' = None
  BY DEF SetFlip, Forget
<1>5. TypeOK'
  BY <1>2, <1>3, <1>4 DEF IInv, TypeOK, Entries, SetFlip, videoVars
<1>6. TableTrue'
  <2>1. CASE flash' = flash /\ table' = table
    BY <2>1 DEF IInv, TableTrue, SetFlip
  <2>2. CASE /\ flash'[item] = arg[item] /\ table'[item] = arg[item]
             /\ \A j \in FlipItems \ {item} : flash'[j] = flash[j] /\ table'[j] = table[j]
    <3>1. doubt' = doubt \/ doubt' = doubt \ {item}
      BY DEF SetFlip
    <3> QED
      BY <1>1, <2>2, <3>1 DEF IInv, TableTrue
  <2> QED
    BY <1>1, SetItemInv, <2>1, <2>2
<1>7. SureIsTrue' /\ PrintedWasRead' /\ CommandKnown'
  BY <1>4 DEF IInv, SureIsTrue, PrintedWasRead, CommandKnown, SetFlip
<1> QED
  BY <1>5, <1>6, <1>7 DEF IInv

LEMMA RaiseFlagInv == IInv /\ RaiseFlag => IInv'
<1> SUFFICES ASSUME IInv, RaiseFlag PROVE IInv'
  OBVIOUS
<1>1. item' \in FlipItems /\ at' \in {"get", "answer"}
  BY NextFlipTyped DEF IInv, RaiseFlag
<1>2. /\ flag' \in [FlipItems -> Flips \cup {None, Invalid}]
      /\ missed' \in SUBSET FlipItems
  BY ArgTyped DEF IInv, TypeOK, RaiseFlag
<1>3. TypeOK'
  BY <1>1, <1>2 DEF IInv, TypeOK, RaiseFlag, store
<1>4. TableTrue' /\ PrintedWasRead' /\ CommandKnown'
  BY <1>1 DEF IInv, TableTrue, PrintedWasRead, CommandKnown, RaiseFlag, store
<1>5. SureIsTrue'
  BY DEF IInv, SureIsTrue, RaiseFlag
<1> QED
  BY <1>3, <1>4, <1>5 DEF IInv

LEMMA AnswerInv == IInv /\ Answer => IInv'
<1> SUFFICES ASSUME IInv, Answer PROVE IInv'
  OBVIOUS
<1>1. TypeOK'
  BY NothingSet DEF IInv, TypeOK, Answer, CommandOver, store, videoVars, FlipItems
<1>2. TableTrue' /\ SureIsTrue' /\ PrintedWasRead' /\ CommandKnown'
  BY DEF IInv, TableTrue, SureIsTrue, PrintedWasRead, CommandKnown, Answer, CommandOver, store
<1> QED
  BY <1>1, <1>2 DEF IInv

LEMMA RestartInv == IInv /\ Restart => IInv'
<1> SUFFICES ASSUME IInv, Restart PROVE IInv'
  OBVIOUS
<1>1. TypeOK'
  BY NothingSet, SettingIsEntries DEF Entries, IInv, TypeOK, Restart, CommandOver, FlipItems
<1>2. TableTrue' /\ SureIsTrue' /\ PrintedWasRead' /\ CommandKnown'
  BY DEF IInv, TableTrue, SureIsTrue, PrintedWasRead, CommandKnown, Restart, CommandOver
<1> QED
  BY <1>1, <1>2 DEF IInv

-----------------------------------------------------------------------------
(* The steps of the video task *)

\* They leave the command task's variables and the flash alone; what is left to show.
LEMMA VideoKeepsCommand ==
    ASSUME IInv, UNCHANGED videoFrame, TypeOK', TableTrue',
           \A i \in FlipItems : flag'[i] \in {flag[i], None}
    PROVE  IInv'
<1>1. SureIsTrue'
  <2> SUFFICES ASSUME sure PROVE SureIsTrue'
    BY DEF SureIsTrue, videoFrame, cmdVars
  <2>1. /\ at \in {"print", "set"}
        /\ cmd = "flicker" => seen = flash[item]
        /\ cmd = "flip" => item = "tb" /\ flag[item] \in {flash[item], None}
    BY DEF IInv, SureIsTrue
  <2>2. item \in FlipItems /\ flag'[item] \in {flag[item], None}
    BY DEF IInv, TypeOK
  <2> QED
    BY <2>1, <2>2 DEF SureIsTrue, videoFrame, cmdVars
<1>2. PrintedWasRead'
  <2> SUFFICES ASSUME at = "print" PROVE flag'[item] \in {flash.tb, None}
    BY DEF PrintedWasRead, videoFrame, cmdVars
  <2>1. flag[item] \in {flash.tb, None} /\ flag'[item] \in {flag[item], None}
    BY DEF IInv, TypeOK, PrintedWasRead
  <2> QED
    BY <2>1
<1>3. CommandKnown'
  BY DEF IInv, CommandKnown, videoFrame, cmdVars
<1> QED
  BY <1>1, <1>2, <1>3 DEF IInv

LEMMA SeeFlagInv == \A i \in FlipItems : IInv /\ SeeFlag(i) => IInv'
<1> SUFFICES ASSUME NEW i \in FlipItems, IInv, SeeFlag(i) PROVE IInv'
  OBVIOUS
<1>1. TypeOK'
  BY DEF IInv, TypeOK, SeeFlag, videoFrame, cmdVars, FlipItems
<1>2. TableTrue' /\ UNCHANGED videoFrame /\ flag' = flag
  BY DEF IInv, TableTrue, SeeFlag, videoFrame
<1> QED
  BY <1>1, <1>2, VideoKeepsCommand

\* The next of the two, or the sensor.
LEMMA NextEntryTyped ==
    ASSUME TypeOK, NextEntry
    PROVE  entry' \in FlipItems /\ video' \in {"read", "apply"}
BY DEF TypeOK, NextEntry, FlipItems

LEMMA ReadInv == IInv /\ (SensorSilent \/ ReadEntry) => IInv'
<1> SUFFICES ASSUME IInv, SensorSilent \/ ReadEntry PROVE IInv'
  OBVIOUS
<1>1. CASE SensorSilent
  <2>1. TypeOK'
    BY <1>1 DEF IInv, TypeOK, SensorSilent, videoFrame, cmdVars
  <2>2. TableTrue' /\ UNCHANGED videoFrame /\ flag' = flag
    BY <1>1 DEF IInv, TableTrue, SensorSilent, videoFrame
  <2> QED
    BY <2>1, <2>2, VideoKeepsCommand
<1>2. CASE ReadEntry
  <2>1. flash[entry] \in Flips
    BY SettingAt DEF IInv, TypeOK
  <2>2. /\ got' \in [FlipItems -> Flips \cup {None}] /\ entry' \in FlipItems
        /\ video' \in {"read", "clear", "apply"}
    BY <1>2, <2>1, NextEntryTyped DEF IInv, TypeOK, ReadEntry
  <2>3. TypeOK'
    BY <1>2, <2>2 DEF IInv, TypeOK, ReadEntry, videoFrame, cmdVars
  <2>4. TableTrue' /\ UNCHANGED videoFrame /\ flag' = flag
    BY <1>2 DEF IInv, TableTrue, ReadEntry, videoFrame
  <2> QED
    BY <2>3, <2>4, VideoKeepsCommand
<1> QED
  BY <1>1, <1>2

LEMMA EntryInv == IInv /\ (ClearEntry \/ PrintEntry) => IInv'
<1> SUFFICES ASSUME IInv, ClearEntry \/ PrintEntry PROVE IInv'
  OBVIOUS
<1>1. PICK v \in Flips \cup {None} : Enter(entry, v)
  <2>1. CASE ClearEntry
    BY <2>1 DEF ClearEntry, Flips
  <2>2. CASE PrintEntry
    BY <2>2 DEF PrintEntry, IInv, TypeOK
  <2> QED
    BY <2>1, <2>2
<1>2. UNCHANGED videoFrame /\ flag' = flag /\ flash' = flash
  BY DEF ClearEntry, PrintEntry, videoFrame
<1>3. table' \in Entries /\ doubt' \in SUBSET FlipItems /\ TableTrue'
  BY <1>1, <1>2, EnterInv DEF IInv, TypeOK
<1>4. entry' \in FlipItems /\ video' \in {"print", "read", "apply"}
  BY NextEntryTyped DEF IInv, TypeOK, ClearEntry, PrintEntry
<1>5. TypeOK'
  BY <1>2, <1>3, <1>4 DEF IInv, TypeOK, Entries, ClearEntry, PrintEntry, videoFrame, cmdVars
<1> QED
  BY <1>2, <1>3, <1>5, VideoKeepsCommand

LEMMA ApplyInv == IInv /\ Apply => IInv'
<1> SUFFICES ASSUME IInv, Apply PROVE IInv'
  OBVIOUS
<1>1. sensor' \in Setting
  <2>1. CASE (\A i \in FlipItems : got[i] # None) /\ sensor' = got
    <3>1. got \in [FlipItems -> Flips]
      BY <2>1 DEF IInv, TypeOK
    <3> QED
      BY <2>1, <3>1 DEF Setting, FlipItems
  <2>2. CASE UNCHANGED sensor
    BY <2>2 DEF IInv, TypeOK
  <2> QED
    BY <2>1, <2>2 DEF Apply
<1>2. TypeOK'
  BY <1>1, NothingSet DEF IInv, TypeOK, Entries, Apply, videoFrame, cmdVars, FlipItems
<1>3. TableTrue' /\ UNCHANGED videoFrame /\ flag' = flag
  BY DEF IInv, TableTrue, Apply, videoFrame
<1> QED
  BY <1>2, <1>3, VideoKeepsCommand

LEMMA FlipDoneInv == IInv /\ FlipDone => IInv'
<1> SUFFICES ASSUME IInv, FlipDone PROVE IInv'
  OBVIOUS
<1>1. flag' \in [FlipItems -> Flips \cup {None, Invalid}] /\ missed' \in SUBSET FlipItems
      /\ \A i \in FlipItems : flag'[i] \in {flag[i], None}
  <2>1. CASE why = "start"
    BY <2>1 DEF IInv, TypeOK, FlipDone, Untrue
  <2>2. CASE why # "start"
    BY <2>2 DEF IInv, TypeOK, FlipDone, FlagDone, Untrue
  <2> QED
    BY <2>1, <2>2
<1>2. TypeOK'
  BY <1>1 DEF IInv, TypeOK, FlipDone, videoFrame, cmdVars
<1>3. TableTrue' /\ UNCHANGED videoFrame
  BY DEF IInv, TableTrue, FlipDone, videoFrame
<1> QED
  BY <1>1, <1>2, <1>3, VideoKeepsCommand

-----------------------------------------------------------------------------
LEMMA StutterInv == IInv /\ UNCHANGED vars => IInv'
BY DEF IInv, TypeOK, TableTrue, SureIsTrue, PrintedWasRead, CommandKnown, vars, store, cmdVars, videoVars

LEMMA NextInv == IInv /\ [Next]_vars => IInv'
BY NewCommandInv, GetCommandInv, GetFlipInv, GetFlipIntoFlagInv, PrintFlagInv, FlipUnchangedInv,
   SetFlipInv, RaiseFlagInv, AnswerInv, RestartInv, SeeFlagInv, ReadInv, EntryInv, ApplyInv,
   FlipDoneInv, StutterInv DEF Next, Handle, Video

\* The inductive invariant of the settings: where the table may be trusted, and what a
\* reading still says when it is compared.
THEOREM SettingsInv == Spec => []IInv
BY InitInv, NextInv, PTL DEF Spec

\* Flash and sensor hold settings through every interleaving of the two tasks; the table
\* and the flags hold, besides, no more than TypeOK allows.
THEOREM SettingsTyped == Spec => []TypeOK
<1>1. IInv => TypeOK
  BY DEF IInv
<1> QED
  BY <1>1, SettingsInv, PTL

\* The answer "done" is true: neither a failing write nor the short cuts of
\* doorbell_cfg_set_item and the commands answer what the flash does not hold, but for
\* the excuses AnswerIsTrue names.
THEOREM AnswersAreTrue == Spec => AnswerIsTrue
<1>1. ASSUME IInv, FlipUnchanged, ~Excused PROVE flash'[item] = arg[item]
  <2>1. at = "set" /\ Compared = arg[item] /\ flash' = flash /\ sure
    BY <1>1 DEF FlipUnchanged, store, Excused
  <2>2. cmd \in {"flip", "flicker"} /\ arg[item] \in Flips \cup {Invalid}
    BY <1>1, <2>1, ArgTyped DEF IInv, CommandKnown
  <2>3. CASE cmd = "flip"
    <3>1. arg[item] = flag[item] /\ flag[item] \in {flash[item], None}
      BY <1>1, <2>1, <2>3 DEF IInv, SureIsTrue, Compared
    <3> QED
      BY <2>1, <2>2, <3>1 DEF Flips, None, Invalid
  <2>4. CASE cmd = "flicker"
    BY <1>1, <2>1, <2>4 DEF IInv, SureIsTrue, Compared
  <2> QED
    BY <2>2, <2>3, <2>4
<1>2. ASSUME IInv, SetFlip, ok', ~Excused PROVE flash'[item] = arg[item]
  <2>1. Compared # arg[item] /\ item \in FlipItems \ doubt
        /\ SetItem(item, arg[item]) /\ arg[item] \in Flips
    BY <1>2 DEF SetFlip, SetInRange, Excused, IInv, TypeOK
  <2>2. flash \in Setting /\ table[item] = flash[item]
    BY <1>2, <2>1 DEF IInv, TypeOK, TableTrue
  <2>3. CASE Loaded /\ table[item] = arg[item]
    BY <2>1, <2>2, <2>3 DEF SetItem, store
  <2>4. CASE ~(Loaded /\ table[item] = arg[item])
    <3>1. flash' = [flash EXCEPT ![item] = arg[item]]
      BY <1>2, <2>1, <2>4 DEF SetItem
    <3> QED
      BY <2>1, <2>2, <3>1 DEF Setting, FlipItems
  <2> QED
    BY <2>3, <2>4
<1>3. IInv /\ [Next]_vars =>
        [(FlipUnchanged \/ SetFlip) /\ ok' /\ ~Excused => flash'[item] = arg[item]]_vars
  BY <1>1, <1>2
<1> QED
  BY <1>3, SettingsInv, PTL DEF Spec, AnswerIsTrue
=============================================================================
