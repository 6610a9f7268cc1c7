---- MODULE ApplicationProofs ----
(***************************************************************************)
(* What holds of the server strings and of the roof for any blocks, texts, *)
(* tasks and azimuths.  The theorems about strings assume that setters do  *)
(* not run at the same time: nothing in the code keeps two of them apart.  *)
(***************************************************************************)
EXTENDS Application, TLAPS

\* At most one task of the application calls the setters.
OneSetter == \A v, w \in Setters : v = w

----------------------------------------------------------------------------
(* The strings as the constructor leaves them. *)

LEMMA FourStrings ==
  /\ Len(Described) = 4
  /\ Strings = {"ServerName", "Manufacturer", "ManufacturerVersion", "Location"}
  /\ \A i \in 1..4 : Described[i] \in Strings
  /\ Settable \subseteq Strings
<1>1. Len(Described) = 4
  BY DEF Described
<1>2. /\ Described[1] = "ServerName" /\ Described[2] = "Manufacturer"
      /\ Described[3] = "ManufacturerVersion" /\ Described[4] = "Location"
  BY DEF Described
<1>3. \A i \in 1..4 : i = 1 \/ i = 2 \/ i = 3 \/ i = 4
  OBVIOUS
<1>4. 1 \in 1..4 /\ 2 \in 1..4 /\ 3 \in 1..4 /\ 4 \in 1..4
  OBVIOUS
<1>5. Strings = {Described[i] : i \in 1..4}
  BY <1>1 DEF Strings
<1>6. Strings = {"ServerName", "Manufacturer", "ManufacturerVersion", "Location"}
  BY <1>2, <1>3, <1>4, <1>5
<1> QED
  BY <1>1, <1>5, <1>6 DEF Settable

\* The values that stand for nothing are told apart from the others.
LEMMA Distinct == None \notin Blocks /\ None \notin Texts /\ None \notin [string : Settable, text : Texts]
  BY StringsAssumption

\* Every string has a block of its own to begin with.
LEMMA OwnBlocks ==
  /\ Layout \in [Strings -> Blocks]
  /\ \A s, z \in Strings : s # z => Layout[s] # Layout[z]
<1>1. Layout \in Layouts
  BY StringsAssumption DEF Layout
<1> QED
  BY <1>1 DEF Layouts

\* A string that found memory points at its text, the other blocks are free.
LEMMA Constructed ==
  ASSUME NEW missing \in SUBSET Strings
  PROVE  /\ MembersWithout(missing) \in [Strings -> Blocks \cup {None}]
         /\ ContentWithout(missing) \in [Blocks -> Texts \cup {None}]
         /\ CurrentWithout(missing) \in [Strings -> Texts \cup {None}]
         /\ \A s \in Strings \ missing :
              /\ MembersWithout(missing)[s] = Layout[s]
              /\ ContentWithout(missing)[Layout[s]] = Configured[s]
              /\ CurrentWithout(missing)[s] = Configured[s]
         /\ \A s \in missing : MembersWithout(missing)[s] = None /\ CurrentWithout(missing)[s] = None
         /\ \A b \in Blocks : ContentWithout(missing)[b] # None => \E s \in Strings \ missing : Layout[s] = b
<1>1. Configured \in [Strings -> Texts]
  BY StringsAssumption
<1> DEFINE Owner(b) == CHOOSE s \in Strings \ missing : Layout[s] = b
<1>2. ASSUME NEW b \in Blocks, \E s \in Strings \ missing : Layout[s] = b
      PROVE  Owner(b) \in Strings \ missing /\ Layout[Owner(b)] = b
  BY <1>2
<1>3. ASSUME NEW s \in Strings \ missing
      PROVE  Owner(Layout[s]) = s
  <2>1. Layout[s] \in Blocks
    BY OwnBlocks
  <2>2. Owner(Layout[s]) \in Strings \ missing /\ Layout[Owner(Layout[s])] = Layout[s]
    BY <1>2, <2>1
  <2> HIDE DEF Owner
  <2> QED
    BY <2>2, OwnBlocks
<1>4. ContentWithout(missing) =
        [b \in Blocks |-> IF \E s \in Strings \ missing : Layout[s] = b THEN Configured[Owner(b)] ELSE None]
  BY DEF ContentWithout
<1>5. \A b \in Blocks : (\E s \in Strings \ missing : Layout[s] = b) => Owner(b) \in Strings
  BY <1>2
<1> HIDE DEF Owner
<1>6. ContentWithout(missing) \in [Blocks -> Texts \cup {None}]
  BY <1>1, <1>4, <1>5
<1>7. \A s \in Strings \ missing : ContentWithout(missing)[Layout[s]] = Configured[s]
  BY <1>3, <1>4, OwnBlocks
<1>8. \A b \in Blocks : ContentWithout(missing)[b] # None => \E s \in Strings \ missing : Layout[s] = b
  BY <1>4
<1>9. /\ MembersWithout(missing) \in [Strings -> Blocks \cup {None}]
      /\ CurrentWithout(missing) \in [Strings -> Texts \cup {None}]
  BY <1>1, OwnBlocks DEF MembersWithout, CurrentWithout
<1>10. \A s \in Strings \ missing :
         MembersWithout(missing)[s] = Layout[s] /\ CurrentWithout(missing)[s] = Configured[s]
  BY DEF MembersWithout, CurrentWithout
<1>11. \A s \in missing : MembersWithout(missing)[s] = None /\ CurrentWithout(missing)[s] = None
  BY DEF MembersWithout, CurrentWithout
<1> QED
  BY <1>6, <1>7, <1>8, <1>9, <1>10, <1>11

----------------------------------------------------------------------------
(* Types. *)

\* What is asked of the constructor in Init and in Restart, on any values.
Started(missing, m, c, u, v, r) ==
  /\ m = MembersWithout(missing) /\ c = ContentWithout(missing) /\ r = CurrentWithout(missing)
  /\ u = [w \in Setters |-> None]
  /\ v = [t \in Tasks |-> Idle]

LEMMA IdleVisit ==
  Idle \in [at : 0..Len(Described) + 1, fetched : BOOLEAN, block : Blocks \cup {None},
            unsettled : BOOLEAN, text : Texts \cup {None}]
  BY FourStrings DEF Idle

LEMMA StringsInit == InitStrings => StringsTypeOK
<1> SUFFICES ASSUME InitStrings PROVE StringsTypeOK
  OBVIOUS
<1>1. PICK missing \in Lacking : Started(missing, member, content, updating, visit, current) /\ freedTwice = FALSE
  BY DEF InitStrings, Started
<1>2. missing \in SUBSET Strings
  BY StringsAssumption
<1> QED
  BY <1>1, <1>2, Constructed, IdleVisit DEF Started, StringsTypeOK

LEMMA StringsRestart == StringsTypeOK /\ RestartStrings => StringsTypeOK'
<1> SUFFICES ASSUME StringsTypeOK, RestartStrings PROVE StringsTypeOK'
  OBVIOUS
<1>1. PICK missing \in Lacking : Started(missing, member', content', updating', visit', current') /\ freedTwice' = freedTwice
  BY DEF RestartStrings, Started
<1>2. missing \in SUBSET Strings
  BY StringsAssumption
<1> QED
  BY <1>1, <1>2, Constructed, IdleVisit DEF Started, StringsTypeOK

\* Being told apart does not change the type of what tasks have in hand.
LEMMA UnsettleType ==
  ASSUME StringsTypeOK, NEW s, Unsettle(s)
  PROVE  visit' \in [Tasks -> [at : 0..Len(Described) + 1, fetched : BOOLEAN,
                               block : Blocks \cup {None}, unsettled : BOOLEAN,
                               text : Texts \cup {None}]]
  BY DEF StringsTypeOK, Unsettle

LEMMA SetterType == ASSUME StringsTypeOK, NEW w \in Setters, SetterSteps(w) PROVE StringsTypeOK'
<1>1. CASE Replace(w)
  <2> DEFINE s == updating[w].string text == updating[w].text
  <2>0. updating[w] \in [string : Settable, text : Texts]
    BY <1>1 DEF Replace, StringsTypeOK
  <2>1. s \in Strings /\ text \in Texts
    BY <2>0, FourStrings
  <2>2. updating' \in [Setters -> [string : Settable, text : Texts] \cup {None}] /\ freedTwice' \in BOOLEAN
    BY <1>1 DEF Replace, StringsTypeOK
  <2>3. Unsettle(s)
    BY <1>1 DEF Replace
  <2>4. /\ member' \in [Strings -> Blocks \cup {None}]
        /\ content' \in [Blocks -> Texts \cup {None}]
        /\ current' \in [Strings -> Texts \cup {None}]
    BY <1>1, <2>1 DEF Replace, StringsTypeOK
  <2> QED
    BY <2>2, <2>3, <2>4, UnsettleType DEF StringsTypeOK
<1>2. ASSUME NEW s \in Settable, NEW text \in Texts, Release(w, s, text)
      PROVE  StringsTypeOK'
  <2>1. Unsettle(s)
    BY <1>2 DEF Release
  <2>2. content' \in [Blocks -> Texts \cup {None}] /\ freedTwice' \in BOOLEAN
    BY <1>2 DEF Release, StringsTypeOK
  <2>3. updating' \in [Setters -> [string : Settable, text : Texts] \cup {None}]
    BY <1>2 DEF Release, StringsTypeOK
  <2> QED
    BY <1>2, <2>1, <2>2, <2>3, UnsettleType DEF Release, StringsTypeOK
<1> QED
  BY <1>1, <1>2 DEF SetterSteps

\* What a copy may give.
LEMMA CopyType == ASSUME StringsTypeOK, NEW b \in Blocks \cup {None} PROVE CopiesOf(b) \subseteq Texts \cup {None}
  BY DEF StringsTypeOK, CopiesOf, Free

LEMMA ReaderType ==
  ASSUME StringsTypeOK, NEW t \in Tasks, Ask(t) \/ DescribeSteps(t),
         visit[t].fetched => visit[t].at \in 1..4
  PROVE  StringsTypeOK' /\ \A q \in Tasks : visit'[q].fetched => q # t \/ visit'[t].at \in 1..4
<1> DEFINE Visits == [at : 0..Len(Described) + 1, fetched : BOOLEAN, block : Blocks \cup {None},
                      unsettled : BOOLEAN, text : Texts \cup {None}]
<1>0. visit \in [Tasks -> Visits] /\ visit[t] \in Visits
  BY DEF StringsTypeOK
<1>1. UNCHANGED <<member, content, updating, current, freedTwice>>
  BY DEF Ask, DescribeSteps, Fetch, Copy, Send
<1>2. PICK v : v \in Visits /\ visit' = [visit EXCEPT ![t] = v] /\ (v.fetched => v.at \in 1..4)
  <2>1. CASE Ask(t)
    <3> DEFINE v == [visit[t] EXCEPT !.at = 1]
    <3>1. v \in Visits /\ visit' = [visit EXCEPT ![t] = v]
      BY <1>0, <2>1, FourStrings DEF Ask
    <3>2. v.at \in 1..4
      BY <1>0
    <3> QED
      BY <3>1, <3>2
  <2>2. CASE Fetch(t)
    <3>1. Described[visit[t].at] \in Strings /\ visit[t].at \in 1..4
      BY <2>2, FourStrings DEF Fetch
    <3>2. member[Described[visit[t].at]] \in Blocks \cup {None}
      BY <3>1 DEF StringsTypeOK
    <3> DEFINE v == [at |-> visit[t].at, fetched |-> TRUE, block |-> member[Described[visit[t].at]], text |-> None,
          unsettled |-> \E w \in Setters : updating[w] # None /\ updating[w].string = Described[visit[t].at]]
    <3>3. v \in Visits /\ visit' = [visit EXCEPT ![t] = v] /\ v.at \in 1..4
      BY <1>0, <2>2, <3>1, <3>2 DEF Fetch
    <3> QED
      BY <3>3
  <2>3. CASE Copy(t)
    <3>1. PICK text \in CopiesOf(visit[t].block) :
            visit' = [visit EXCEPT ![t] = [at |-> visit[t].at + 1, fetched |-> FALSE, block |-> None,
                                           text |-> text, unsettled |-> FALSE]]
      BY <2>3 DEF Copy
    <3>2. text \in Texts \cup {None}
      BY <1>0, CopyType
    <3>3. visit[t].at + 1 \in 0..Len(Described) + 1
      BY <2>3, FourStrings DEF Copy
    <3> DEFINE v == [at |-> visit[t].at + 1, fetched |-> FALSE, block |-> None, text |-> text, unsettled |-> FALSE]
    <3>4. v \in Visits /\ ~v.fetched
      BY <3>2, <3>3
    <3> QED
      BY <3>1, <3>4
  <2>4. CASE Send(t)
    <3>1. ~Idle.fetched
      BY DEF Idle
    <3> QED
      BY <2>4, <3>1, IdleVisit DEF Send
  <2> QED
    BY <2>1, <2>2, <2>3, <2>4 DEF DescribeSteps
<1> QED
  BY <1>0, <1>1, <1>2 DEF StringsTypeOK

\* A pointer in hand belongs to one of the four strings.
Reading == \A t \in Tasks : visit[t].fetched => visit[t].at \in 1..4

StringsTyped == StringsTypeOK /\ Reading

LEMMA IdleReads == ~Idle.fetched /\ Idle.at = 0
  BY DEF Idle

\* Unsettling moves nobody on.
LEMMA UnsettleMoves ==
  ASSUME StringsTypeOK, NEW s, Unsettle(s), NEW t \in Tasks
  PROVE  /\ visit'[t].at = visit[t].at
         /\ visit'[t].fetched = visit[t].fetched
         /\ visit'[t].block = visit[t].block
         /\ visit'[t].unsettled = (visit[t].unsettled \/ Holds(t, s))
<1>1. visit[t].unsettled \in BOOLEAN
  BY DEF StringsTypeOK
<1>2. visit'[t] = IF Holds(t, s) THEN [visit[t] EXCEPT !.unsettled = TRUE] ELSE visit[t]
  BY DEF Unsettle
<1>3. visit[t] \in [at : 0..Len(Described) + 1, fetched : BOOLEAN, block : Blocks \cup {None},
                    unsettled : BOOLEAN, text : Texts \cup {None}]
  BY DEF StringsTypeOK
<1>4. CASE Holds(t, s)
  BY <1>2, <1>3, <1>4
<1>5. CASE ~Holds(t, s)
  BY <1>1, <1>2, <1>5
<1> QED
  BY <1>4, <1>5

LEMMA SetterUnsettles ==
  ASSUME NEW w \in Setters, SetterSteps(w)
  PROVE  \E s : Unsettle(s)
  BY DEF SetterSteps, Replace, Release

\* No task moves while a setter does.
LEMMA SetterReads ==
  ASSUME StringsTyped, NEW w \in Setters, SetterSteps(w)
  PROVE  Reading'
  BY SetterUnsettles, UnsettleMoves DEF StringsTyped, Reading

\* All tasks are idle when the constructor has run.
LEMMA StartReads ==
  /\ InitStrings => Reading
  /\ RestartStrings => Reading'
  BY IdleReads DEF InitStrings, RestartStrings, Reading

\* Tasks but the one that moves stay where they are.
LEMMA OthersStay ==
  ASSUME StringsTypeOK, NEW t \in Tasks, Ask(t) \/ DescribeSteps(t), NEW q \in Tasks, q # t
  PROVE  visit'[q] = visit[q]
  BY DEF StringsTypeOK, Ask, DescribeSteps, Fetch, Copy, Send

LEMMA StringsStep ==
  ASSUME StringsTyped, [Next]_vars
  PROVE  StringsTyped'
<1>1. CASE \E w \in Setters : Set(w)
  BY <1>1, SetterType, SetterReads DEF Set, StringsTyped
<1>2. ASSUME NEW t \in Tasks, Ask(t) \/ DescribeSteps(t)
      PROVE  StringsTyped'
  <2>1. StringsTypeOK' /\ (visit'[t].fetched => visit'[t].at \in 1..4)
    BY <1>2, ReaderType DEF StringsTyped, Reading
  <2>2. Reading'
    BY <1>2, <2>1, OthersStay DEF StringsTyped, Reading
  <2> QED
    BY <2>1, <2>2 DEF StringsTyped
<1>3. CASE \E t \in Tasks : StartDescription(t) \/ Describe(t)
  BY <1>2, <1>3 DEF StartDescription, Describe
<1>4. CASE UNCHANGED stringVars
  BY <1>4 DEF stringVars, StringsTyped, StringsTypeOK, Reading
<1>5. CASE Restart
  BY <1>5, StringsRestart, StartReads DEF Restart, StringsTyped
<1>6. \A t \in Tasks : CallRoof(t) => UNCHANGED stringVars
  BY DEF CallRoof
<1>7. UNCHANGED vars => UNCHANGED stringVars
  BY DEF vars
<1> QED
  BY <1>1, <1>3, <1>4, <1>5, <1>6, <1>7 DEF Next

LEMMA StringsTypedAlways == Spec => []StringsTyped
<1>1. Init => StringsTyped
  BY StringsInit, StartReads DEF Init, StringsTyped
<1>2. StringsTyped /\ [Next]_vars => StringsTyped'
  BY StringsStep
<1> QED
  BY <1>1, <1>2, PTL DEF Spec

----------------------------------------------------------------------------
(* The roof. *)

\* What commands and their answers have to do with each other, with the types.
RoofInv == RoofTypeOK /\ RefusesWhatItCannot

\* Whatever becomes of an azimuth is a number.
LEMMA HundredthsAreNumbers == ASSUME NEW a \in Azimuths \cup Unfit PROVE Hundredths(a) \subseteq Nat
<1>1. CASE a \in Unfit
  BY <1>1, RoofAssumption DEF Hundredths
<1>2. CASE a \notin Unfit
  <2>1. Hundredths(a) \subseteq 0..a
    BY <1>2 DEF Hundredths
  <2>2. 0..a \subseteq Nat
    OBVIOUS
  <2> QED
    BY <2>1, <2>2
<1> QED
  BY <1>1, <1>2

LEMMA RoofStart == (InitRoof => RoofInv) /\ (RestartRoof => RoofInv')
<1>1. \A r \in FreshRoofs : r \in [connected : BOOLEAN, centi : Nat, shutter : ShutterStates]
  BY RoofAssumption DEF FreshRoofs
<1>2. /\ NoAnswers \in [Callers -> [command : DOMAIN Abilities \cup {"abortslew"}, ok : BOOLEAN] \cup {Unknown}]
      /\ \A t \in Callers : NoAnswers[t] = Unknown
  BY DEF NoAnswers
<1>3. InitRoof => RoofInv
  BY <1>1, <1>2 DEF InitRoof, RoofInv, RoofTypeOK, RefusesWhatItCannot
<1>4. RestartRoof => RoofInv'
  BY <1>1, <1>2 DEF RestartRoof, RoofInv, RoofTypeOK, RefusesWhatItCannot
<1> QED
  BY <1>3, <1>4

LEMMA CommandNames ==
  DOMAIN Abilities = {"slewtoazimuth", "synctoazimuth", "findhome", "openshutter", "closeshutter",
                      "park", "setpark", "slewtoaltitude", "slaved"}
  BY DEF Abilities

\* Commands that are obeyed are those the roof says it can obey.
LEMMA AbilitiesAgree ==
  /\ \A c \in {"slewtoazimuth", "synctoazimuth", "findhome", "openshutter", "closeshutter"} : Abilities[c] = TRUE
  /\ \A c \in Refusing : Abilities[c] = FALSE
  BY DEF Abilities, Refusing

\* An answer is in order if it says what the abilities say.
LEMMA AnswerInOrder ==
  ASSUME RoofInv, NEW t \in Callers, NEW command \in DOMAIN Abilities \cup {"abortslew"},
         NEW ok \in BOOLEAN, Answers(t, command, ok),
         command \in DOMAIN Abilities => ok = Abilities[command]
  PROVE  /\ RefusesWhatItCannot'
         /\ answer' \in [Callers -> [command : DOMAIN Abilities \cup {"abortslew"}, ok : BOOLEAN] \cup {Unknown}]
<1> DEFINE Records == [command : DOMAIN Abilities \cup {"abortslew"}, ok : BOOLEAN]
<1> DEFINE a == [command |-> command, ok |-> ok]
<1>1. a \in Records /\ a.command = command /\ a.ok = ok
  OBVIOUS
<1>2. answer \in [Callers -> Records \cup {Unknown}]
  BY DEF RoofInv, RoofTypeOK
<1>3. answer' = [answer EXCEPT ![t] = a]
  BY DEF Answers
<1> HIDE DEF Records, a
<1>4. answer' \in [Callers -> Records \cup {Unknown}] /\ answer'[t] = a
      /\ \A q \in Callers : q # t => answer'[q] = answer[q]
  BY <1>1, <1>2, <1>3
<1>5. RefusesWhatItCannot'
  BY <1>1, <1>4 DEF RoofInv, RefusesWhatItCannot
<1> QED
  BY <1>4, <1>5 DEF Records

LEMMA RoofStep ==
  ASSUME RoofInv, NEW t \in Callers, RoofSteps(t)
  PROVE  RoofInv'
<1> USE DEF RoofInv
<1>0. roof \in [connected : BOOLEAN, centi : Nat, shutter : ShutterStates]
  BY DEF RoofTypeOK
<1>1. ASSUME NEW connected \in BOOLEAN, SetConnected(connected)
      PROVE  RoofInv'
  BY <1>1 DEF SetConnected, RoofTypeOK, RefusesWhatItCannot
<1>2. ASSUME NEW a \in Azimuths \cup Unfit, NEW command \in {"slewtoazimuth", "synctoazimuth"}, Turn(t, command, a)
      PROVE  RoofInv'
  <2>1. PICK c \in Hundredths(a) : roof' = [roof EXCEPT !.centi = c]
    BY <1>2 DEF Turn
  <2>2. roof' \in [connected : BOOLEAN, centi : Nat, shutter : ShutterStates]
    BY <1>0, <2>1, HundredthsAreNumbers
  <2>3. command \in DOMAIN Abilities /\ Abilities[command] = TRUE
    BY CommandNames, AbilitiesAgree
  <2> QED
    BY <1>2, <2>2, <2>3, AnswerInOrder DEF Turn, RoofTypeOK
<1>3. CASE FindHome(t)
  <2>1. roof' \in [connected : BOOLEAN, centi : Nat, shutter : ShutterStates]
    BY <1>0, <1>3 DEF FindHome
  <2> QED
    BY <1>3, <2>1, CommandNames, AbilitiesAgree, AnswerInOrder DEF FindHome, RoofTypeOK
<1>4. ASSUME NEW command \in {"openshutter", "closeshutter"}, NEW state \in {"Open", "Closed"}, MoveShutter(t, command, state)
      PROVE  RoofInv'
  <2>1. roof' \in [connected : BOOLEAN, centi : Nat, shutter : ShutterStates]
    BY <1>0, <1>4 DEF MoveShutter, ShutterStates
  <2> QED
    BY <1>4, <2>1, CommandNames, AbilitiesAgree, AnswerInOrder DEF MoveShutter, RoofTypeOK
<1>5. CASE DoNothing(t)
  <2>1. PICK command \in {"abortslew", "park", "setpark", "slewtoaltitude", "slaved"} :
          Answers(t, command, command \notin Refusing)
    BY <1>5 DEF DoNothing
  <2>2. /\ command \in DOMAIN Abilities \cup {"abortslew"}
        /\ command \in DOMAIN Abilities => (command \notin Refusing) = Abilities[command]
    BY CommandNames, AbilitiesAgree DEF Refusing
  <2>3. (command \notin Refusing) \in BOOLEAN
    OBVIOUS
  <2>4. /\ RefusesWhatItCannot'
        /\ answer' \in [Callers -> [command : DOMAIN Abilities \cup {"abortslew"}, ok : BOOLEAN] \cup {Unknown}]
    BY <2>1, <2>2, <2>3, AnswerInOrder
  <2> QED
    BY <1>5, <2>4 DEF DoNothing, RoofTypeOK
<1> QED
  BY <1>1, <1>2, <1>3, <1>4, <1>5 DEF RoofSteps

LEMMA RoofInvAlways == Spec => []RoofInv
<1>1. Init => RoofInv
  BY RoofStart DEF Init
<1>2. RoofInv /\ [Next]_vars => RoofInv'
  <2> SUFFICES ASSUME RoofInv, [Next]_vars PROVE RoofInv'
    OBVIOUS
  <2>1. CASE UNCHANGED roofVars
    BY <2>1 DEF roofVars, RoofInv, RoofTypeOK, RefusesWhatItCannot
  <2>2. ASSUME NEW t \in Tasks, StartDescription(t)
        PROVE  RoofInv'
    <3>1. answer' = [answer EXCEPT ![t] = Unknown] /\ UNCHANGED roof
      BY <2>2 DEF StartDescription
    <3>2. \A q \in Callers : answer'[q] = Unknown \/ answer'[q] = answer[q]
      BY <3>1 DEF RoofInv, RoofTypeOK
    <3>3. RefusesWhatItCannot'
      BY <3>2 DEF RoofInv, RefusesWhatItCannot
    <3>4. RoofTypeOK'
      BY <3>1 DEF RoofInv, RoofTypeOK
    <3> QED
      BY <3>3, <3>4 DEF RoofInv
  <2>3. ASSUME NEW t \in Tasks, CallRoof(t)
        PROVE  RoofInv'
    BY <2>3, RoofStep, ApplicationAssumption DEF CallRoof
  <2>4. CASE Restart
    BY <2>4, RoofStart DEF Restart
  <2> QED
    BY <2>1, <2>2, <2>3, <2>4 DEF Next, Set, Describe, vars
<1> QED
  BY <1>1, <1>2, PTL DEF Spec

\* The roof refuses exactly the commands that it says it cannot obey.
THEOREM RoofKnowsItsLimits == Spec => []RefusesWhatItCannot
<1>1. RoofInv => RefusesWhatItCannot
  BY DEF RoofInv
<1> QED
  BY <1>1, RoofInvAlways, PTL

\* Every variable of the application keeps its type.
THEOREM TypeCorrect == Spec => []TypeOK
<1>1. StringsTyped /\ RoofInv => TypeOK
  BY DEF StringsTyped, RoofInv, TypeOK
<1> QED
  BY <1>1, StringsTypedAlways, RoofInvAlways, PTL

----------------------------------------------------------------------------
(* The strings, when setters take turns. *)

\* The text a string was last set to is in its block.
TextsBelong ==
  \A s \in Strings : Settled(s) =>
    IF member[s] = None THEN current[s] = None ELSE content[member[s]] = current[s]

\* A task that no setter came across has the pointer of the string in hand.
PointersHold ==
  \A t \in Tasks : visit[t].fetched /\ ~visit[t].unsettled =>
    LET s == Described[visit[t].at] IN Settled(s) /\ visit[t].block = member[s]

StringsInv == StringsTyped /\ BlocksBelong /\ FreedOnce /\ TextsBelong /\ PointersHold

LEMMA StartInOrder ==
  ASSUME NEW missing \in Lacking, Started(missing, member, content, updating, visit, current)
  PROVE  BlocksBelong /\ TextsBelong /\ PointersHold
<1>1. missing \in SUBSET Strings
  BY StringsAssumption
<1>2. /\ member = MembersWithout(missing) /\ content = ContentWithout(missing) /\ current = CurrentWithout(missing)
      /\ \A t \in Tasks : visit[t] = Idle
  BY DEF Started
<1>3. \A s \in Strings \ missing :
        member[s] = Layout[s] /\ content[member[s]] = Configured[s] /\ current[s] = Configured[s]
  BY <1>1, <1>2, Constructed
<1>4. \A s \in missing : member[s] = None /\ current[s] = None
  BY <1>1, <1>2, Constructed
<1>5. \A b \in Blocks : content[b] # None => \E s \in Strings \ missing : Layout[s] = b
  BY <1>1, <1>2, Constructed
<1>6. \A s \in Strings : Configured[s] # None /\ Layout[s] # None
  BY Distinct, OwnBlocks, StringsAssumption
<1>7. \A s \in Strings : Settled(s)
  BY DEF Started, Settled
<1>8. \A b \in Blocks : content[b] # None => \E s \in Strings : member[s] = b
  BY <1>3, <1>5
<1>9. \A s \in Strings : member[s] # None => content[member[s]] # None
  BY <1>3, <1>4, <1>6
<1>10. \A s, z \in Strings : s # z /\ member[s] # None => member[s] # member[z]
  BY <1>3, <1>4, <1>6, OwnBlocks
<1>11. BlocksBelong
  BY <1>7, <1>8, <1>9, <1>10 DEF BlocksBelong, Free
<1>12. TextsBelong
  BY <1>3, <1>4, <1>6 DEF TextsBelong
<1>13. PointersHold
  BY <1>2, IdleReads DEF PointersHold
<1> QED
  BY <1>11, <1>12, <1>13

\* The state the constructor leaves, at a start and at a restart.
Fresh == \E missing \in Lacking : Started(missing, member, content, updating, visit, current)

LEMMA FreshInOrder == Fresh => BlocksBelong /\ TextsBelong /\ PointersHold
  BY StartInOrder DEF Fresh

LEMMA FreshAgainInOrder == Fresh' => BlocksBelong' /\ TextsBelong' /\ PointersHold'
  BY FreshInOrder, PTL

\* With one setter, all strings are settled but the one it has in hand.
LEMMA OneAtATime ==
  ASSUME OneSetter, NEW w \in Setters
  PROVE  \A s : Settled(s) <=> (updating[w] = None \/ updating[w].string # s)
  BY DEF OneSetter, Settled

\* Readers of the string a setter touches are unsettled; the others are not concerned.
LEMMA PointersStay ==
  ASSUME StringsTyped, PointersHold, NEW s \in Strings, Unsettle(s),
         \A z \in Strings : z # s /\ Settled(z) => Settled(z)' /\ member'[z] = member[z]
  PROVE  PointersHold'
<1> SUFFICES ASSUME NEW t \in Tasks, visit'[t].fetched, ~visit'[t].unsettled
             PROVE  (Settled(Described[visit[t].at]) /\ visit[t].block = member[Described[visit[t].at]])'
  BY DEF PointersHold
<1>1. /\ visit'[t].at = visit[t].at /\ visit[t].fetched /\ visit'[t].block = visit[t].block
      /\ ~visit[t].unsettled /\ ~Holds(t, s)
  BY UnsettleMoves DEF StringsTyped
<1> DEFINE z == Described[visit[t].at]
<1>2. z # s /\ z \in Strings
  BY <1>1, FourStrings DEF Holds, StringsTyped, Reading
<1>3. Settled(z) /\ visit[t].block = member[z]
  BY <1>1 DEF PointersHold
<1>4. (\A w \in Setters : updating'[w] = None \/ updating'[w].string # z) /\ member'[z] = member[z]
  BY <1>2, <1>3 DEF Settled
<1> QED
  BY <1>1, <1>3, <1>4 DEF Settled

LEMMA ReleaseStep ==
  ASSUME StringsInv, OneSetter, NEW w \in Setters, NEW s \in Settable, NEW text \in Texts,
         Release(w, s, text)
  PROVE  BlocksBelong' /\ FreedOnce' /\ TextsBelong' /\ PointersHold'
<1>1. s \in Strings /\ \A z \in Strings : Settled(z)
  BY OneAtATime, FourStrings DEF Release
<1>2. /\ updating'[w] = [string |-> s, text |-> text]
      /\ member' = member /\ current' = current /\ Unsettle(s)
  BY DEF Release, StringsInv, StringsTyped, StringsTypeOK
<1>3. \A z \in Strings : Settled(z)' <=> z # s
  <2>1. updating'[w].string = s /\ updating'[w] # None
    BY <1>2, Distinct
  <2> QED
    BY <2>1 DEF Settled, OneSetter
<1>4. /\ \A b \in Blocks : content[b] # None => \E z \in Strings : member[z] = b
      /\ \A z \in Strings : member[z] # None => content[member[z]] # None
      /\ \A y, z \in Strings : y # z /\ member[y] # None => member[y] # member[z]
  BY <1>1 DEF StringsInv, BlocksBelong, Free
<1>5. content \in [Blocks -> Texts \cup {None}] /\ member \in [Strings -> Blocks \cup {None}]
  BY DEF StringsInv, StringsTyped, StringsTypeOK
<1>6. /\ member[s] = None => content' = content
      /\ member[s] # None => content' = [content EXCEPT ![member[s]] = None]
  BY DEF Release
<1>7. \A b \in Blocks : content'[b] = IF b = member[s] THEN None ELSE content[b]
  BY <1>1, <1>5, <1>6, Distinct
<1>8. BlocksBelong'
  <2>1. \A b \in Blocks : content'[b] # None => \E z \in Strings : z # s /\ member[z] = b
    BY <1>4, <1>7
  <2>2. \A z \in Strings : z # s /\ member[z] # None => content'[member[z]] # None
    BY <1>1, <1>4, <1>5, <1>7
  <2> QED
    BY <1>2, <1>3, <1>4, <2>1, <2>2 DEF BlocksBelong, Free
<1>9. TextsBelong'
  <2>1. \A z \in Strings : z # s /\ member[z] # None => content'[member[z]] = content[member[z]]
    BY <1>1, <1>4, <1>5, <1>7
  <2> QED
    BY <1>1, <1>2, <1>3, <2>1 DEF StringsInv, TextsBelong
<1>10. FreedOnce'
  BY <1>1, <1>4 DEF StringsInv, Release, FreedOnce, Free
<1>11. PointersHold'
  BY <1>1, <1>2, <1>3, PointersStay DEF StringsInv
<1> QED
  BY <1>8, <1>9, <1>10, <1>11

LEMMA ReplaceStep ==
  ASSUME StringsInv, OneSetter, NEW w \in Setters, Replace(w)
  PROVE  BlocksBelong' /\ FreedOnce' /\ TextsBelong' /\ PointersHold'
<1> DEFINE s == updating[w].string
<1>1. updating[w] \in [string : Settable, text : Texts] /\ updating'[w] = None
  BY DEF Replace, StringsInv, StringsTyped, StringsTypeOK
<1>2. s \in Strings /\ updating[w].text \in Texts
  BY <1>1, FourStrings
<1>3. \A z \in Strings : Settled(z) <=> z # s
  BY OneAtATime DEF Replace
<1>4. \A z \in Strings : Settled(z)'
  BY <1>1 DEF Settled, OneSetter
<1>5. content \in [Blocks -> Texts \cup {None}] /\ member \in [Strings -> Blocks \cup {None}]
      /\ current \in [Strings -> Texts \cup {None}]
  BY DEF StringsInv, StringsTyped, StringsTypeOK
<1>6. /\ \A b \in Blocks : content[b] # None => \E z \in Strings : z # s /\ member[z] = b
      /\ \A z \in Strings : z # s /\ member[z] # None => content[member[z]] # None
      /\ \A y, z \in Strings : y # z /\ y # s /\ z # s /\ member[y] # None => member[y] # member[z]
      /\ \A z \in Strings : z # s => IF member[z] = None THEN current[z] = None ELSE content[member[z]] = current[z]
  BY <1>3 DEF StringsInv, BlocksBelong, TextsBelong, Free
<1>7. Unsettle(s) /\ freedTwice' = freedTwice
  BY DEF Replace
<1>8. CASE \E b \in {c \in Blocks : Free(c)} :
             /\ member' = [member EXCEPT ![s] = b]
             /\ content' = [content EXCEPT ![b] = updating[w].text]
             /\ current' = [current EXCEPT ![s] = updating[w].text]
  <2> HIDE DEF s
  <2>1. PICK b \in Blocks :
          /\ content[b] = None
          /\ member' = [member EXCEPT ![s] = b]
          /\ content' = [content EXCEPT ![b] = updating[w].text]
          /\ current' = [current EXCEPT ![s] = updating[w].text]
    BY <1>8 DEF Free
  <2>2. /\ member'[s] = b /\ content'[b] = updating[w].text /\ current'[s] = updating[w].text
        /\ \A z \in Strings : z # s => member'[z] = member[z] /\ current'[z] = current[z]
        /\ \A c \in Blocks : c # b => content'[c] = content[c]
    BY <1>2, <1>5, <2>1
  <2>3. \A z \in Strings : z # s => member[z] # b
    BY <1>6, <2>1, Distinct
  <2>4. updating[w].text # None /\ b # None
    BY <1>2, Distinct
  <2>5. \A c \in Blocks : content'[c] # None => \E z \in Strings : member'[z] = c
    BY <1>2, <1>6, <2>2
  <2>6. \A z \in Strings : z # s /\ member[z] # None => content'[member[z]] = content[member[z]]
    BY <1>5, <2>2, <2>3
  <2>7. \A z \in Strings : member'[z] # None => content'[member'[z]] # None
    BY <1>6, <2>2, <2>4, <2>6
  <2>8. \A y, z \in Strings : y # z /\ member'[y] # None => member'[y] # member'[z]
    BY <1>6, <2>2, <2>3
  <2>9. BlocksBelong'
    BY <1>4, <2>5, <2>7, <2>8 DEF BlocksBelong, Free
  <2>10. TextsBelong'
    BY <1>6, <2>2, <2>4, <2>6 DEF TextsBelong
  <2>11. PointersHold'
    BY <1>2, <1>4, <1>7, <2>2, PointersStay DEF StringsInv
  <2> QED
    BY <1>7, <2>9, <2>10, <2>11 DEF StringsInv, FreedOnce
<1>9. CASE member' = [member EXCEPT ![s] = None] /\ current' = [current EXCEPT ![s] = None] /\ content' = content
  <2> HIDE DEF s
  <2>1. /\ member'[s] = None /\ current'[s] = None
        /\ \A z \in Strings : z # s => member'[z] = member[z] /\ current'[z] = current[z]
    BY <1>2, <1>5, <1>9
  <2>2. BlocksBelong'
    <3>1. \A c \in Blocks : content'[c] # None => \E z \in Strings : member'[z] = c
      BY <1>6, <1>9, <2>1
    <3>2. \A z \in Strings : member'[z] # None => content'[member'[z]] # None
      BY <1>6, <1>9, <2>1
    <3>3. \A y, z \in Strings : y # z /\ member'[y] # None => member'[y] # member'[z]
      BY <1>6, <2>1
    <3> QED
      BY <1>4, <3>1, <3>2, <3>3 DEF BlocksBelong, Free
  <2>3. TextsBelong'
    BY <1>6, <1>9, <2>1 DEF TextsBelong
  <2>4. PointersHold'
    BY <1>2, <1>4, <1>7, <2>1, PointersStay DEF StringsInv
  <2> QED
    BY <1>7, <2>2, <2>3, <2>4 DEF StringsInv, FreedOnce
<1> QED
  BY <1>8, <1>9 DEF Replace

LEMMA ReadStep ==
  ASSUME StringsInv, NEW t \in Tasks, Ask(t) \/ DescribeSteps(t)
  PROVE  BlocksBelong' /\ FreedOnce' /\ TextsBelong' /\ PointersHold'
<1>1. UNCHANGED <<member, content, updating, current, freedTwice>>
  BY DEF Ask, DescribeSteps, Fetch, Copy, Send
<1>2. BlocksBelong' /\ FreedOnce' /\ TextsBelong' /\ \A s : Settled(s)' <=> Settled(s)
  BY <1>1 DEF StringsInv, BlocksBelong, FreedOnce, TextsBelong, Settled, Free
<1>3. visit'[t].fetched /\ ~visit'[t].unsettled =>
        Settled(Described[visit'[t].at]) /\ visit'[t].block = member[Described[visit'[t].at]]
  <2>0. t \in DOMAIN visit
    BY DEF StringsInv, StringsTyped, StringsTypeOK
  <2>1. CASE Ask(t)
    <3>1. ~visit[t].fetched
      BY <2>1 DEF Ask, StringsInv, StringsTyped, Reading
    <3>2. visit'[t] = [visit[t] EXCEPT !.at = 1]
      BY <2>0, <2>1 DEF Ask
    <3>3. visit[t] \in [at : 0..Len(Described) + 1, fetched : BOOLEAN, block : Blocks \cup {None},
                        unsettled : BOOLEAN, text : Texts \cup {None}]
      BY DEF StringsInv, StringsTyped, StringsTypeOK
    <3> QED
      BY <3>1, <3>2, <3>3
  <2>2. CASE Fetch(t)
    <3> DEFINE s == Described[visit[t].at]
    <3>1. visit'[t] = [at |-> visit[t].at, fetched |-> TRUE, block |-> member[s], text |-> None,
                       unsettled |-> \E w \in Setters : updating[w] # None /\ updating[w].string = s]
      BY <2>0, <2>2 DEF Fetch
    <3> HIDE DEF s
    <3>2. /\ visit'[t].at = visit[t].at /\ visit'[t].block = member[s]
          /\ visit'[t].unsettled = \E w \in Setters : updating[w] # None /\ updating[w].string = s
      BY <3>1
    <3> QED
      BY <3>2 DEF s, Settled
  <2>3. CASE Copy(t)
    BY <2>0, <2>3 DEF Copy
  <2>4. CASE Send(t)
    BY <2>0, <2>4, IdleReads DEF Send
  <2> QED
    BY <2>1, <2>2, <2>3, <2>4 DEF DescribeSteps
<1>4. \A q \in Tasks : q # t => visit'[q] = visit[q]
  BY OthersStay DEF StringsInv, StringsTyped
<1>5. PointersHold'
  BY <1>1, <1>2, <1>3, <1>4 DEF StringsInv, PointersHold
<1> QED
  BY <1>2, <1>5

LEMMA StringsInvAlways == OneSetter => (Spec => []StringsInv)
<1>1. Init => StringsInv
  <2> SUFFICES ASSUME Init PROVE StringsInv
    OBVIOUS
  <2>1. Fresh /\ freedTwice = FALSE
    BY DEF Init, InitStrings, Started, Fresh
  <2>2. StringsTyped
    BY StringsInit, StartReads DEF Init, StringsTyped
  <2>3. BlocksBelong /\ TextsBelong /\ PointersHold
    BY <2>1, FreshInOrder
  <2> QED
    BY <2>1, <2>2, <2>3 DEF StringsInv, FreedOnce
<1>2. OneSetter /\ StringsInv /\ [Next]_vars => StringsInv'
  <2> SUFFICES ASSUME OneSetter, StringsInv, [Next]_vars PROVE StringsInv'
    OBVIOUS
  <2>0. StringsTyped'
    BY StringsStep DEF StringsInv
  <2>1. ASSUME NEW w \in Setters, Set(w)
        PROVE  BlocksBelong' /\ FreedOnce' /\ TextsBelong' /\ PointersHold'
    BY <2>1, ReleaseStep, ReplaceStep DEF Set, SetterSteps
  <2>2. ASSUME NEW t \in Tasks, StartDescription(t) \/ Describe(t)
        PROVE  BlocksBelong' /\ FreedOnce' /\ TextsBelong' /\ PointersHold'
    BY <2>2, ReadStep DEF StartDescription, Describe
  <2>3. CASE UNCHANGED stringVars
    BY <2>0, <2>3 DEF stringVars, StringsInv, BlocksBelong, FreedOnce, TextsBelong, PointersHold, Settled, Free
  <2>4. CASE Restart
    <3>1. Fresh' /\ freedTwice' = freedTwice
      BY <2>4 DEF Restart, RestartStrings, Started, Fresh
    <3> QED
      BY <2>0, <3>1, FreshAgainInOrder DEF StringsInv, FreedOnce
  <2>5. \A t \in Tasks : CallRoof(t) => UNCHANGED stringVars
    BY DEF CallRoof
  <2>6. UNCHANGED vars => UNCHANGED stringVars
    BY DEF vars
  <2> QED
    BY <2>0, <2>1, <2>2, <2>3, <2>4, <2>5, <2>6 DEF Next, StringsInv
<1> SUFFICES ASSUME OneSetter PROVE Spec => []StringsInv
  OBVIOUS
<1>3. StringsInv /\ [Next]_vars => StringsInv'
  BY <1>2
<1> QED
  BY <1>1, <1>3, PTL DEF Spec

\* With setters that take turns no block of a string is lost or shared, even
\* if strdup may fail and tasks read at any moment.
THEOREM NoBlockLost == OneSetter => (Spec => []BlocksBelong)
<1>1. StringsInv => BlocksBelong
  BY DEF StringsInv
<1> QED
  BY <1>1, StringsInvAlways, PTL

\* With setters that take turns no block is freed when it is free.
THEOREM NoDoubleFree == OneSetter => (Spec => []FreedOnce)
<1>1. StringsInv => FreedOnce
  BY DEF StringsInv
<1> QED
  BY <1>1, StringsInvAlways, PTL

\* With setters that take turns a reading that none of them came across shows
\* the text the string was last set to.
THEOREM QuietReadings == OneSetter => (Spec => QuietReadingsAreCurrent)
<1>1. StringsInv /\ [Next]_vars =>
        [\A t \in Tasks :
           visit[t].fetched /\ ~visit[t].unsettled /\ visit'[t].at = visit[t].at + 1
             => visit'[t].text = current[Described[visit[t].at]]]_stringVars
  <2> SUFFICES ASSUME StringsInv, [Next]_vars, ~UNCHANGED stringVars,
                      NEW t \in Tasks, visit[t].fetched, ~visit[t].unsettled, visit'[t].at = visit[t].at + 1
               PROVE  visit'[t].text = current[Described[visit[t].at]]
    OBVIOUS
  <2>0. visit[t].at \in 1..4 /\ StringsTypeOK
    BY DEF StringsInv, StringsTyped, Reading
  <2>1. CASE \E w \in Setters : Set(w)
    BY <2>0, <2>1, SetterUnsettles, UnsettleMoves DEF Set
  <2>2. ASSUME NEW q \in Tasks, Ask(q) \/ DescribeSteps(q)
        PROVE  visit'[t].text = current[Described[visit[t].at]]
    <3>1. q = t
      BY <2>0, <2>2, OthersStay
    <3>2. t \in DOMAIN visit
      BY <2>0 DEF StringsTypeOK
    <3>3. CASE Copy(t)
      <4> DEFINE s == Described[visit[t].at]
      <4>1. PICK text \in CopiesOf(visit[t].block) :
              visit' = [visit EXCEPT ![t] = [at |-> visit[t].at + 1, fetched |-> FALSE, block |-> None,
                                             text |-> text, unsettled |-> FALSE]]
        BY <3>3 DEF Copy
      <4>2. visit'[t].text = text
        BY <3>2, <4>1
      <4>3. s \in Strings /\ Settled(s) /\ visit[t].block = member[s]
        BY <2>0, FourStrings DEF StringsInv, PointersHold
      <4> HIDE DEF s
      <4>4. IF member[s] = None THEN current[s] = None ELSE ~Free(member[s]) /\ content[member[s]] = current[s]
        BY <4>3 DEF StringsInv, TextsBelong, BlocksBelong
      <4>5. text = current[s]
        BY <4>1, <4>3, <4>4 DEF CopiesOf
      <4> QED
        BY <4>2, <4>5 DEF s
    <3>4. CASE Ask(t)
      BY <2>0, <3>4 DEF Ask
    <3>5. CASE Fetch(t)
      BY <3>5 DEF Fetch
    <3>6. CASE Send(t)
      BY <2>0, <3>2, <3>6, IdleReads DEF Send
    <3> QED
      BY <2>2, <3>1, <3>3, <3>4, <3>5, <3>6 DEF DescribeSteps
  <2>3. CASE Restart
    BY <2>0, <2>3, IdleReads DEF Restart, RestartStrings
  <2>4. \A q \in Tasks : CallRoof(q) => UNCHANGED stringVars
    BY DEF CallRoof
  <2>5. UNCHANGED vars => UNCHANGED stringVars
    BY DEF vars
  <2> QED
    BY <2>1, <2>2, <2>3, <2>4, <2>5 DEF Next, StartDescription, Describe
<1> SUFFICES ASSUME OneSetter PROVE Spec => QuietReadingsAreCurrent
  OBVIOUS
<1>2. Spec => []StringsInv
  BY StringsInvAlways
<1> QED
  BY <1>1, <1>2, PTL DEF Spec, QuietReadingsAreCurrent

----------------------------------------------------------------------------
(* Descriptions are sent.  Weak fairness speaks of a step that can be       *)
(* taken, and ENABLED itself means nothing to the provers: that there is    *)
(* such a step is a hypothesis, DescribersNeverWait, and what it says is    *)
(* proved without ENABLED, in DescribersGoOn.                               *)

\* A handler that describes the server never waits, neither for a setter nor for
\* another task: the next of its steps can be taken whenever one is left.
Describing(t) == visit[t].at > 0
DescribersNeverWait == \A t \in Tasks : Describing(t) => ENABLED <<Describe(t)>>_vars

\* How many steps a task still has to take: to fetch and to copy each of the
\* four strings, and to send.
StepsLeft(t) ==
  IF visit[t].at = 0 THEN 0 ELSE 2 * (5 - visit[t].at) + (IF visit[t].fetched THEN 0 ELSE 1)

LEMMA StepsCounted ==
  ASSUME StringsTyped, NEW t \in Tasks
  PROVE  /\ StepsLeft(t) \in 0..9
         /\ visit[t].at > 0 <=> StepsLeft(t) # 0
         /\ visit[t].at = 0 <=> StepsLeft(t) = 0
<1>1. visit[t].at \in 0..5 /\ visit[t].fetched \in BOOLEAN
  BY FourStrings DEF StringsTyped, StringsTypeOK
<1>2. visit[t].fetched => visit[t].at \in 1..4
  BY DEF StringsTyped, Reading
<1> QED
  BY <1>1, <1>2 DEF StepsLeft

LEMMA DescribeCounts ==
  ASSUME StringsTyped, NEW t \in Tasks, Describe(t)
  PROVE  StepsLeft(t)' = StepsLeft(t) - 1
<1>1. visit[t].at \in 0..5 /\ visit[t].fetched \in BOOLEAN /\ t \in DOMAIN visit
  BY FourStrings DEF StringsTyped, StringsTypeOK
<1>2. visit[t].fetched => visit[t].at \in 1..4
  BY DEF StringsTyped, Reading
<1>3. CASE Fetch(t)
  <2>1. /\ visit[t].at \in 1..4 /\ ~visit[t].fetched
        /\ visit'[t].at = visit[t].at /\ visit'[t].fetched
    BY <1>1, <1>3, FourStrings DEF Fetch
  <2> QED
    BY <2>1 DEF StepsLeft
<1>4. CASE Copy(t)
  <2>1. visit[t].fetched /\ visit'[t].at = visit[t].at + 1 /\ ~visit'[t].fetched
    BY <1>1, <1>4 DEF Copy
  <2> QED
    BY <1>1, <1>2, <2>1 DEF StepsLeft
<1>5. CASE Send(t)
  <2>1. visit[t].at = 5 /\ visit'[t].at = 0
    BY <1>1, <1>5, FourStrings, IdleReads DEF Send
  <2> QED
    BY <1>2, <2>1 DEF StepsLeft
<1> QED
  BY <1>3, <1>4, <1>5 DEF Describe, DescribeSteps

\* No step sets a task back, except that a restart ends its description.
LEMMA StepsCountDown ==
  ASSUME StringsTyped, [Next]_vars, NEW t \in Tasks, StepsLeft(t) # 0
  PROVE  StepsLeft(t)' \in {StepsLeft(t), StepsLeft(t) - 1, 0}
<1>0. visit[t].at # 0
  BY StepsCounted
<1>1. CASE \E w \in Setters : Set(w)
  <2>1. visit'[t].at = visit[t].at /\ visit'[t].fetched = visit[t].fetched
    BY <1>1, SetterUnsettles, UnsettleMoves DEF Set, StringsTyped
  <2> QED
    BY <2>1 DEF StepsLeft
<1>2. ASSUME NEW q \in Tasks, StartDescription(q) \/ Describe(q)
      PROVE  StepsLeft(t)' \in {StepsLeft(t), StepsLeft(t) - 1}
  <2>1. CASE q = t
    BY <1>0, <1>2, <2>1, DescribeCounts DEF StartDescription, Ask
  <2>2. CASE q # t
    <3>1. visit'[t] = visit[t]
      BY <1>2, <2>2, OthersStay DEF StartDescription, Describe, StringsTyped
    <3> QED
      BY <3>1 DEF StepsLeft
  <2> QED
    BY <2>1, <2>2
<1>3. CASE Restart
  <2>1. visit'[t].at = 0
    BY <1>3, IdleReads DEF Restart, RestartStrings
  <2> QED
    BY <2>1 DEF StepsLeft
<1>4. UNCHANGED stringVars => StepsLeft(t)' = StepsLeft(t)
  BY DEF stringVars, StepsLeft
<1>5. UNCHANGED vars \/ (\E q \in Tasks : CallRoof(q)) => UNCHANGED stringVars
  BY DEF vars, CallRoof
<1> QED
  BY <1>1, <1>2, <1>3, <1>4, <1>5 DEF Next

\* With n steps left, sooner or later there are only m, or none after a restart.
CountsDown(t, n, m) ==
  Spec /\ []DescribersNeverWait => (StepsLeft(t) = n ~> (StepsLeft(t) = m \/ StepsLeft(t) = 0))

\* One step after the other.
LEMMA NextStepComes ==
  ASSUME NEW t \in Tasks, NEW n \in 1..9, NEW m \in 0..8, n = m + 1
  PROVE  CountsDown(t, n, m)
<1>1. StringsTyped /\ StepsLeft(t) = n /\ [Next]_vars =>
        (StepsLeft(t) = n)' \/ (StepsLeft(t) = m \/ StepsLeft(t) = 0)'
  BY StepsCountDown
<1>2. StringsTyped /\ StepsLeft(t) = n /\ <<Describe(t)>>_vars => (StepsLeft(t) = m \/ StepsLeft(t) = 0)'
  BY DescribeCounts
<1>3. StringsTyped /\ StepsLeft(t) = n /\ DescribersNeverWait => ENABLED <<Describe(t)>>_vars
  BY StepsCounted DEF DescribersNeverWait, Describing
<1>4. Fairness => RunsOn(t)
  BY DEF Fairness
<1> QED
  BY <1>1, <1>2, <1>3, <1>4, StringsTypedAlways, PTL DEF Spec, RunsOn, CountsDown

\* A description asked for is sent, or ends with a restart, whatever setters do
\* and however often the chip restarts.
THEOREM DescriptionsAreSent == Spec /\ []DescribersNeverWait => EveryDescriptionSent
<1>1. ASSUME NEW t \in Tasks
      PROVE  Spec /\ []DescribersNeverWait => (visit[t].at > 0 ~> visit[t].at = 0)
  <2>1. StringsTyped /\ visit[t].at > 0 => StepsLeft(t) \in 1..9
    BY StepsCounted
  <2>2. StringsTyped /\ StepsLeft(t) = 0 => visit[t].at = 0
    BY StepsCounted
  <2>3. /\ CountsDown(t, 9, 8) /\ CountsDown(t, 8, 7) /\ CountsDown(t, 7, 6)
        /\ CountsDown(t, 6, 5) /\ CountsDown(t, 5, 4) /\ CountsDown(t, 4, 3)
        /\ CountsDown(t, 3, 2) /\ CountsDown(t, 2, 1) /\ CountsDown(t, 1, 0)
    BY NextStepComes
  <2>4. StepsLeft(t) \in 1..9 =>
          \/ StepsLeft(t) = 1 \/ StepsLeft(t) = 2 \/ StepsLeft(t) = 3 \/ StepsLeft(t) = 4
          \/ StepsLeft(t) = 5 \/ StepsLeft(t) = 6 \/ StepsLeft(t) = 7 \/ StepsLeft(t) = 8
          \/ StepsLeft(t) = 9
    OBVIOUS
  <2> QED
    BY <2>1, <2>2, <2>3, <2>4, StringsTypedAlways, PTL DEF CountsDown
<1> QED
  BY <1>1 DEF EveryDescriptionSent

(* What DescribersNeverWait says, for any number of tasks and setters.  An  *)
(* action is enabled if there is a next state for it: here is one.          *)

\* One next state for a description: DescribeMove gives every variable a value, and
\* has no guard.
VisitAfter(t) ==
  CASE visit[t].at > Len(Described) -> Idle
    [] visit[t].fetched ->
         [at |-> visit[t].at + 1, fetched |-> FALSE, block |-> None,
          text |-> CHOOSE text : text \in CopiesOf(visit[t].block), unsettled |-> FALSE]
    [] OTHER ->
         LET s == Described[visit[t].at] IN
         [at |-> visit[t].at, fetched |-> TRUE, block |-> member[s], text |-> None,
          unsettled |-> \E w \in Setters : updating[w] # None /\ updating[w].string = s]

DescribeMove(t) ==
  /\ visit' = [visit EXCEPT ![t] = VisitAfter(t)]
  /\ UNCHANGED <<member, content, updating, current, freedTwice, roofVars>>

\* A handler that describes the server always has a step that it can take: to fetch a
\* pointer, to copy from it, which gives something whatever became of the block, or
\* to send.
THEOREM DescribersGoOn ==
  StringsTyped => \A t \in Tasks : Describing(t) /\ DescribeMove(t) => <<Describe(t)>>_vars
<1> SUFFICES ASSUME StringsTyped, NEW t \in Tasks, Describing(t), DescribeMove(t)
             PROVE  <<Describe(t)>>_vars
  OBVIOUS
<1>1. /\ visit[t].at \in 1..5 /\ visit[t].fetched \in BOOLEAN /\ Len(Described) = 4
      /\ visit' = [visit EXCEPT ![t] = VisitAfter(t)] /\ visit'[t] = VisitAfter(t)
      /\ UNCHANGED <<member, content, updating, current, freedTwice>> /\ UNCHANGED roofVars
  BY FourStrings DEF StringsTyped, StringsTypeOK, Describing, DescribeMove
<1>2. visit[t].fetched => visit[t].at \in 1..4
  BY DEF StringsTyped, Reading
<1>3. CASE visit[t].at = 5
  <2>1. VisitAfter(t) = Idle /\ VisitAfter(t).at = 0
    BY <1>1, <1>2, <1>3, IdleReads DEF VisitAfter
  <2>2. Send(t) /\ visit' # visit
    <3>1. visit'[t].at = 0 /\ visit[t].at > Len(Described) /\ visit' = [visit EXCEPT ![t] = Idle]
      BY <1>1, <1>3, <2>1
    <3>2. visit' # visit
      BY <1>3, <3>1
    <3> QED
      BY <1>1, <3>1, <3>2 DEF Send
  <2> QED
    BY <1>1, <2>2 DEF Describe, DescribeSteps, vars, stringVars
<1>4. CASE visit[t].fetched
  <2> DEFINE copy == CHOOSE text : text \in CopiesOf(visit[t].block)
  <2>1. copy \in CopiesOf(visit[t].block)
    <3>1. CopiesOf(visit[t].block) # {}
      BY DEF CopiesOf
    <3> QED
      BY <3>1
  <2>2. VisitAfter(t) = [at |-> visit[t].at + 1, fetched |-> FALSE, block |-> None,
                         text |-> copy, unsettled |-> FALSE]
    BY <1>1, <1>2, <1>4 DEF VisitAfter
  <2> HIDE DEF copy
  <2>3. Copy(t)
    <3>1. visit' = [visit EXCEPT ![t] = [at |-> visit[t].at + 1, fetched |-> FALSE, block |-> None,
                                         text |-> copy, unsettled |-> FALSE]]
      BY <1>1, <2>2
    <3> QED
      BY <1>1, <1>4, <2>1, <3>1 DEF Copy
  <2>4. visit' # visit
    BY <1>1, <1>4, <2>2
  <2> QED
    BY <1>1, <2>3, <2>4 DEF Describe, DescribeSteps, vars, stringVars
<1>5. CASE visit[t].at # 5 /\ ~visit[t].fetched
  <2>1. /\ VisitAfter(t).fetched
        /\ VisitAfter(t) = LET s == Described[visit[t].at] IN
             [at |-> visit[t].at, fetched |-> TRUE, block |-> member[s], text |-> None,
              unsettled |-> \E w \in Setters : updating[w] # None /\ updating[w].string = s]
    BY <1>1, <1>5 DEF VisitAfter
  <2>2. Fetch(t)
    BY <1>1, <1>5, <2>1 DEF Fetch
  <2>3. visit' # visit
    BY <1>1, <1>5, <2>1
  <2> QED
    BY <1>1, <2>2, <2>3 DEF Describe, DescribeSteps, vars, stringVars
<1> QED
  BY <1>1, <1>3, <1>4, <1>5
====
