---- MODULE ServerStrings ----
(***************************************************************************)
(* The strings of an Api object (api.cpp, 86-112) that the server          *)
(* description shows (831-848).  A string is a pointer to a block that     *)
(* strdup allocated.  set_server_name and set_location free that block and *)
(* then store a pointer to a new one; in between the member points at      *)
(* freed memory.  Nothing keeps the tasks of HTTP servers from reading the *)
(* member at any of these moments: a reader fetches the pointer, and the   *)
(* JSON library then copies what it points at.                             *)
(***************************************************************************)
EXTENDS Naturals, Sequences

CONSTANTS
  Blocks,      \* blocks of the heap that strdup may return
  Texts,       \* what a string may say
  Configured,  \* the text the constructor gets for each string
  Lacking,     \* sets of strings for which the constructor may find no memory
  Setters,     \* tasks of the application that call the setters
  Tasks,       \* tasks of HTTP servers
  None         \* a null pointer, no text, nothing in hand

VARIABLES
  member,      \* the block each string member points at, or None
  content,     \* the text in each block in use, None in a free one
  updating,    \* the string and text a setter is between free and strdup with
  visit,       \* how far each task has come with a description
  current,     \* history: the text each string was last set to
  freedTwice   \* history: some block was freed when it was free

stringVars == <<member, content, updating, visit, current, freedTwice>>

\* The members of the description, in the order they are read.
Described == <<"ServerName", "Manufacturer", "ManufacturerVersion", "Location">>
Strings == {Described[i] : i \in 1..Len(Described)}

\* Those that have a setter.
Settable == {"ServerName", "Location"}

\* Assignments of a block of its own to every string.
Layouts == {f \in [Strings -> Blocks] : \A s, z \in Strings : s # z => f[s] # f[z]}

\* There are blocks for all strings; what stands for nothing is no block or text.
ASSUME StringsAssumption ==
  /\ Layouts # {}
  /\ Configured \in [Strings -> Texts]
  /\ Lacking \subseteq SUBSET Strings
  /\ None \notin Blocks \cup Texts \cup [string : Settable, text : Texts]

----------------------------------------------------------------------------
\* A block that strdup returned for one string is as good as another.
Layout == CHOOSE f \in Layouts : TRUE

\* What the constructor leaves when strdup fails for the strings in missing.
MembersWithout(missing) == [s \in Strings |-> IF s \in missing THEN None ELSE Layout[s]]
ContentWithout(missing) ==
  [b \in Blocks |-> IF \E s \in Strings \ missing : Layout[s] = b
                      THEN Configured[CHOOSE s \in Strings \ missing : Layout[s] = b]
                      ELSE None]
CurrentWithout(missing) == [s \in Strings |-> IF s \in missing THEN None ELSE Configured[s]]

Free(b) == content[b] = None

\* at is the place of the string in hand, 0 when no description is asked for;
\* block the pointer fetched for it, text what was copied from the last one;
\* unsettled whether a setter was at work on that string since the fetch, and
\* fetched whether there was a fetch.
Idle == [at |-> 0, fetched |-> FALSE, block |-> None, unsettled |-> FALSE, text |-> None]

InitStrings ==
  \E missing \in Lacking :
    /\ member = MembersWithout(missing)
    /\ content = ContentWithout(missing)
    /\ current = CurrentWithout(missing)
    /\ updating = [w \in Setters |-> None]
    /\ visit = [t \in Tasks |-> Idle]
    /\ freedTwice = FALSE

\* The chip restarts: the constructor runs again with the configured texts.
RestartStrings ==
  \E missing \in Lacking :
    /\ member' = MembersWithout(missing)
    /\ content' = ContentWithout(missing)
    /\ current' = CurrentWithout(missing)
    /\ updating' = [w \in Setters |-> None]
    /\ visit' = [t \in Tasks |-> Idle]
    /\ UNCHANGED freedTwice

----------------------------------------------------------------------------
\* The task has fetched the pointer of string s and not yet copied its text.
Holds(t, s) == visit[t].fetched /\ Described[visit[t].at] = s

\* The task that was reading s is told nothing, but its reading is unsettled.
Unsettle(s) ==
  visit' = [t \in Tasks |-> IF Holds(t, s) THEN [visit[t] EXCEPT !.unsettled = TRUE] ELSE visit[t]]

\* Wrong on purpose: the setter does not free the old text.
ReleaseForgotten(w, s, text) ==
  /\ updating[w] = None
  /\ updating' = [updating EXCEPT ![w] = [string |-> s, text |-> text]]
  /\ Unsettle(s)
  /\ UNCHANGED <<member, content, current, freedTwice>>

\* free(_server_name), free(_location): the member keeps the old pointer.
Release(w, s, text) ==
  /\ updating[w] = None
  /\ updating' = [updating EXCEPT ![w] = [string |-> s, text |-> text]]
  /\ IF member[s] = None
       THEN UNCHANGED <<content, freedTwice>>
       ELSE /\ freedTwice' = (freedTwice \/ Free(member[s]))
            /\ content' = [content EXCEPT ![member[s]] = None]
  /\ Unsettle(s)
  /\ UNCHANGED <<member, current>>

\* Wrong on purpose: the old pointer is kept when there is no memory.
ReplaceIfAny(w) ==
  /\ updating[w] # None
  /\ LET s == updating[w].string text == updating[w].text IN
       \/ \E b \in {c \in Blocks : Free(c)} :
            /\ member' = [member EXCEPT ![s] = b]
            /\ content' = [content EXCEPT ![b] = text]
            /\ current' = [current EXCEPT ![s] = text]
       \/ UNCHANGED <<member, current, content>>
  /\ Unsettle(updating[w].string)
  /\ updating' = [updating EXCEPT ![w] = None]
  /\ UNCHANGED freedTwice

\* Wrong on purpose: whatever the string, the name's pointer is replaced.
ReplaceName(w) ==
  /\ updating[w] # None
  /\ LET s == updating[w].string text == updating[w].text IN
       /\ \E b \in {c \in Blocks : Free(c)} :
            /\ member' = [member EXCEPT !["ServerName"] = b]
            /\ content' = [content EXCEPT ![b] = text]
            /\ current' = [current EXCEPT ![s] = text]
       /\ Unsettle(s)
  /\ updating' = [updating EXCEPT ![w] = None]
  /\ UNCHANGED freedTwice

\* _server_name = strdup(server_name): any free block, or NULL.
Replace(w) ==
  /\ updating[w] # None
  /\ LET s == updating[w].string text == updating[w].text IN
       \/ \E b \in {c \in Blocks : Free(c)} :
            /\ member' = [member EXCEPT ![s] = b]
            /\ content' = [content EXCEPT ![b] = text]
            /\ current' = [current EXCEPT ![s] = text]
            /\ Unsettle(s)
       \/ /\ member' = [member EXCEPT ![s] = None]
          /\ current' = [current EXCEPT ![s] = None]
          /\ Unsettle(s)
          /\ UNCHANGED content
  /\ updating' = [updating EXCEPT ![w] = None]
  /\ UNCHANGED freedTwice

----------------------------------------------------------------------------
\* A client asks for the description.
Ask(t) ==
  /\ visit[t].at = 0
  /\ visit' = [visit EXCEPT ![t].at = 1]
  /\ UNCHANGED <<member, content, updating, current, freedTwice>>

\* The handler reads the member: api->_server_name.
Fetch(t) ==
  /\ visit[t].at \in 1..Len(Described)
  /\ ~visit[t].fetched
  /\ LET s == Described[visit[t].at] IN
       visit' = [visit EXCEPT ![t] =
         [at |-> visit[t].at, fetched |-> TRUE, block |-> member[s], text |-> None,
          unsettled |-> \E w \in Setters : updating[w] # None /\ updating[w].string = s]]
  /\ UNCHANGED <<member, content, updating, current, freedTwice>>

\* What a copy from a pointer gives: nothing from NULL (the member is left out
\* of the description), the text of a block in use, and anything from one that
\* was freed: its other users may have written to it.
CopiesOf(b) == IF b = None THEN {None} ELSE IF Free(b) THEN Texts \cup {None} ELSE {content[b]}

\* Wrong on purpose: a reading that came across a setter is taken again.
CopyOnceSettled(t) ==
  /\ visit[t].fetched
  /\ \E text \in CopiesOf(visit[t].block) :
       visit' = [visit EXCEPT ![t] =
         IF visit[t].unsettled
           THEN [visit[t] EXCEPT !.fetched = FALSE, !.block = None, !.unsettled = FALSE]
           ELSE [at |-> visit[t].at + 1, fetched |-> FALSE, block |-> None, text |-> text,
                 unsettled |-> FALSE]]
  /\ UNCHANGED <<member, content, updating, current, freedTwice>>

\* Wrong on purpose: the tree refers to the string instead of copying it.
CopyReference(t) ==
  /\ visit[t].fetched
  /\ visit' = [visit EXCEPT ![t] =
       [at |-> visit[t].at + 1, fetched |-> FALSE, block |-> None, text |-> visit[t].block,
        unsettled |-> FALSE]]
  /\ UNCHANGED <<member, content, updating, current, freedTwice>>

\* cJSON_AddStringToObject copies the text.
Copy(t) ==
  /\ visit[t].fetched
  /\ \E text \in CopiesOf(visit[t].block) :
       visit' = [visit EXCEPT ![t] =
         [at |-> visit[t].at + 1, fetched |-> FALSE, block |-> None, text |-> text,
          unsettled |-> FALSE]]
  /\ UNCHANGED <<member, content, updating, current, freedTwice>>

\* All members are read; the reply goes out.
Send(t) ==
  /\ visit[t].at > Len(Described)
  /\ visit' = [visit EXCEPT ![t] = Idle]
  /\ UNCHANGED <<member, content, updating, current, freedTwice>>

SetterSteps(w) == Replace(w) \/ \E s \in Settable, text \in Texts : Release(w, s, text)
DescribeSteps(t) == Fetch(t) \/ Copy(t) \/ Send(t)

----------------------------------------------------------------------------
\* The type of every variable.
StringsTypeOK ==
  /\ member \in [Strings -> Blocks \cup {None}]
  /\ content \in [Blocks -> Texts \cup {None}]
  /\ updating \in [Setters -> [string : Settable, text : Texts] \cup {None}]
  /\ visit \in [Tasks -> [at : 0..Len(Described) + 1, fetched : BOOLEAN,
                          block : Blocks \cup {None}, unsettled : BOOLEAN,
                          text : Texts \cup {None}]]
  /\ current \in [Strings -> Texts \cup {None}]
  /\ freedTwice \in BOOLEAN

\* The strings whose member may be used: no setter is at work on them.
Settled(s) == \A w \in Setters : updating[w] = None \/ updating[w].string # s

\* Setters neither leak blocks nor share them: every block in use is the text
\* of exactly one string no setter is at work on, and every such string that
\* has a pointer points at a block in use.  (103-104, 109-110: the pairs of
\* free and strdup, when strdup may fail.)
BlocksBelong ==
  /\ \A b \in Blocks : ~Free(b) => \E s \in Strings : Settled(s) /\ member[s] = b
  /\ \A s \in Strings : Settled(s) /\ member[s] # None => ~Free(member[s])
  /\ \A s, z \in Strings :
       s # z /\ Settled(s) /\ Settled(z) /\ member[s] # None => member[s] # member[z]

\* No block is freed twice, not even when strdup failed at the update before.
FreedOnce == ~freedTwice

\* A reading that no setter of that string came across shows the text the
\* string was last set to: neither the text of another string nor what the
\* heap holds.  Only readings that overlap an update are at its mercy (104).
QuietReadingsAreCurrent ==
  [][\A t \in Tasks :
       visit[t].fetched /\ ~visit[t].unsettled /\ visit'[t].at = visit[t].at + 1
         => visit'[t].text = current[Described[visit[t].at]]]_stringVars

\* A description asked for is eventually sent, whatever the setters do.
EveryDescriptionSent == \A t \in Tasks : visit[t].at > 0 ~> visit[t].at = 0
====
