------------------------ MODULE AlpacaServiceProofs ------------------------
(***************************************************************************)
(* More theorems about AlpacaApi: what numbers replies show, and, as long  *)
(* as bodies arrive whole, what drivers see and that the API implements    *)
(* AlpacaService.                                                          *)
(***************************************************************************)
EXTENDS AlpacaApiProofs, FiniteSetTheorems, WellFoundedInduction

-----------------------------------------------------------------------------
(* The numbers that replies show.                                          *)

LEMMA SameRemainder ==
  ASSUME NEW n \in Nat \ {0}, NEW a \in Int, NEW b \in Int, NEW k \in Int, a = b + n * k
  PROVE  a % n = b % n
<1> DEFINE r == b % n
<1>1. r \in 0 .. n - 1 /\ \E q \in Int : b = n * q + r
  BY RemainderType
<1> HIDE DEF r
<1>2. PICK q \in Int : b = n * q + r
  BY <1>1
<1> DEFINE m == q + k
<1>3. a = n * m + r
  <2>1. n * m = n * q + n * k /\ n * q \in Int /\ n * k \in Int
    OBVIOUS
  <2> QED
    BY <1>1, <1>2, <2>1
<1>4. m \in Int
  OBVIOUS
<1> HIDE DEF m
<1>5. a % n = r
  BY <1>1, <1>3, <1>4, UniqueRemainder
<1> QED
  BY <1>5 DEF r

\* What is shown of a number is the number but for a multiple of IdRange.
LEMMA ShownMultiple ==
  ASSUME NEW a \in Nat
  PROVE  Shown(a) \in Int /\ \E k \in Int : Shown(a) = a + IdRange * k
<1> DEFINE x == a % IdRange
<1>1. a \in Int /\ IdRange \in Nat \ {0}
  BY RangeAssumption
<1>2. x \in 0 .. IdRange - 1 /\ \E k \in Int : a = IdRange * k + x
  BY <1>1, RemainderType
<1>3. Shown(a) = x \/ Shown(a) = x - IdRange
  BY DEF Shown
<1> HIDE DEF x
<1>4. PICK k \in Int : a = IdRange * k + x
  BY <1>2
<1>5. /\ IdRange * (-k) = -(IdRange * k) /\ IdRange * (-k - 1) = -(IdRange * k) - IdRange
      /\ IdRange * k \in Int /\ -k \in Int /\ -k - 1 \in Int
  BY <1>1
<1>6. x = a + IdRange * (-k) /\ x - IdRange = a + IdRange * (-k - 1)
  BY <1>1, <1>2, <1>4, <1>5
<1>7. Shown(a) = a + IdRange * (-k) \/ Shown(a) = a + IdRange * (-k - 1)
  BY <1>3, <1>6
<1>8. Shown(a) \in Int
  BY <1>1, <1>2, <1>3
<1>9. \E m \in Int : Shown(a) = a + IdRange * m
  <2>1. CASE Shown(a) = a + IdRange * (-k)
    <3> WITNESS -k \in Int
    <3> QED
      BY <2>1
  <2>2. CASE Shown(a) = a + IdRange * (-k - 1)
    <3> WITNESS -k - 1 \in Int
    <3> QED
      BY <2>2
  <2> QED
    BY <1>7, <2>1, <2>2
<1> QED
  BY <1>8, <1>9

LEMMA ShownRemainder ==
  ASSUME NEW a \in Nat
  PROVE  Shown(a % IdRange) = Shown(a)
<1> DEFINE x == a % IdRange
<1>1. x \in 0 .. IdRange - 1 /\ IdRange \in Nat \ {0}
  BY RangeAssumption, RemainderType
<1> HIDE DEF x
<1>2. x = IdRange * 0 + x /\ x \in Int /\ 0 \in Int
  BY <1>1
<1>3. x % IdRange = x
  BY <1>1, <1>2, UniqueRemainder
<1> QED
  BY <1>3 DEF Shown, x

LEMMA ShownApart ==
  ASSUME NEW a \in Nat, NEW b \in Nat, a < b, Shown(a) = Shown(b)
  PROVE  b - a >= IdRange
<1> DEFINE x == a % IdRange
<1> DEFINE y == b % IdRange
<1>1. x \in 0 .. IdRange - 1 /\ y \in 0 .. IdRange - 1
  BY RangeAssumption
<1>2. (IF 2 * x < IdRange THEN x ELSE x - IdRange) = (IF 2 * y < IdRange THEN y ELSE y - IdRange)
  BY DEF Shown
<1> HIDE DEF x, y
<1>3. x = y
  BY <1>1, <1>2, RangeAssumption
<1> QED
  BY <1>3, EqualRemainders, RangeAssumption DEF x, y

LEMMA ShownInOrder ==
  ASSUME NumbersInv, RepliesCarryOwnIds, NEW r \in Requests, JsonReplied(r)
  PROVE  reply[r].tx = Shown(order[r])
<1>1. order[r] \in Nat /\ tx[r] = order[r] % IdRange
  BY DEF NumbersInv, TypeOK, Wraps
<1> QED
  BY <1>1, ShownRemainder DEF RepliesCarryOwnIds

\* The numbers in two replies differ unless their requests are at least IdRange
\* apart, wherever the counter has got to.
THEOREM NumbersTellApart == Spec => []RepliesTellApart
<1>1. NumbersInv /\ RepliesCarryOwnIds => RepliesTellApart
  <2> SUFFICES ASSUME NumbersInv, RepliesCarryOwnIds, NEW r \in Requests, NEW q \in Requests,
                      JsonReplied(r), JsonReplied(q), reply[r].tx = reply[q].tx,
                      order[r] < order[q]
               PROVE  order[q] - order[r] >= IdRange
    BY DEF RepliesTellApart
  <2>1. order[r] \in Nat /\ order[q] \in Nat
    BY DEF NumbersInv, TypeOK
  <2>2. reply[r].tx = Shown(order[r]) /\ reply[q].tx = Shown(order[q])
    BY ShownInOrder
  <2> QED
    BY <2>1, <2>2, ShownApart
<1> QED
  BY <1>1, NumbersInvariant, OwnNumbers, PTL

\* The numbers in two replies differ, as the unsigned numbers they are shown for,
\* by the number of requests that were numbered from one to the other.
THEOREM NumbersCount == Spec => []RepliesCountRequests
<1>1. NumbersInv /\ RepliesCarryOwnIds => RepliesCountRequests
  <2> SUFFICES ASSUME NumbersInv, RepliesCarryOwnIds, NEW r \in Requests, NEW q \in Requests,
                      JsonReplied(r), JsonReplied(q)
               PROVE  (reply[q].tx - reply[r].tx) % IdRange = (order[q] - order[r]) % IdRange
    BY DEF RepliesCountRequests
  <2>1. order[r] \in Nat /\ order[q] \in Nat /\ IdRange \in Nat \ {0}
    BY RangeAssumption DEF NumbersInv, TypeOK
  <2>2. reply[r].tx = Shown(order[r]) /\ reply[q].tx = Shown(order[q])
    BY ShownInOrder
  <2>3. PICK j \in Int : Shown(order[r]) = order[r] + IdRange * j
    BY <2>1, ShownMultiple
  <2>4. PICK k \in Int : Shown(order[q]) = order[q] + IdRange * k
    BY <2>1, ShownMultiple
  <2> DEFINE a == Shown(order[q]) - Shown(order[r])
             b == order[q] - order[r]
             m == k - j
  <2>5. /\ IdRange * m = IdRange * k - IdRange * j
        /\ IdRange * k \in Int /\ IdRange * j \in Int /\ m \in Int
    BY <2>1
  <2>6. a = b + IdRange * m
    BY <2>1, <2>3, <2>4, <2>5
  <2>7. a \in Int /\ b \in Int
    BY <2>1, ShownMultiple
  <2> HIDE DEF a, b, m
  <2>8. a % IdRange = b % IdRange
    BY <2>1, <2>5, <2>6, <2>7, SameRemainder
  <2> QED
    BY <2>2, <2>8 DEF a, b
<1> QED
  BY <1>1, NumbersInvariant, OwnNumbers, PTL

-----------------------------------------------------------------------------
(* The first and the last of a set of positions.                           *)

LEMMA FirstPosition ==
  ASSUME NEW n \in Nat, NEW T, T \subseteq 1 .. n, T # {}
  PROVE  \E i \in T : \A j \in T : i <= j
<1> DEFINE D == {1 .. i : i \in T}
<1>1. IsFiniteSet(1 .. n)
  BY FS_Interval
<1>2. IsWellFoundedOn(StrictSubsetOrdering(1 .. n), SUBSET (1 .. n))
  BY <1>1, FS_StrictSubsetOrderingWellFounded, FS_FiniteSubsetsOfFinite
<1>3. D \subseteq SUBSET (1 .. n) /\ D # {}
  <2>1. \A i \in T : 1 .. i \subseteq 1 .. n
    OBVIOUS
  <2> QED
    BY <2>1
<1> HIDE DEF D
<1>4. PICK d \in D : \A e \in D : ~(<<e, d>> \in StrictSubsetOrdering(1 .. n))
  BY <1>2, <1>3, WFMin
<1>5. PICK i \in T : d = 1 .. i
  BY <1>4 DEF D
<1>6. ASSUME NEW j \in T, j < i PROVE FALSE
  <2>1. 1 .. j \in D /\ 1 .. j \subseteq 1 .. i /\ 1 .. j # 1 .. i
    <3>1. i \in 1 .. i /\ i \notin 1 .. j
      BY <1>6
    <3> QED
      BY <1>6, <3>1 DEF D
  <2>2. <<1 .. j, d>> \in StrictSubsetOrdering(1 .. n)
    BY <2>1, <1>3, <1>4, <1>5 DEF StrictSubsetOrdering
  <2> QED
    BY <2>1, <2>2, <1>4
<1> QED
  BY <1>6

LEMMA LastPosition ==
  ASSUME NEW n \in Nat, NEW T, T \subseteq 1 .. n, T # {}
  PROVE  \E i \in T : \A j \in T : j <= i
<1> DEFINE U == {n + 1 - i : i \in T}
<1>1. U \subseteq 1 .. n /\ U # {}
  <2>1. \A i \in T : n + 1 - i \in 1 .. n
    OBVIOUS
  <2> QED
    BY <2>1
<1>2. PICK u \in U : \A v \in U : u <= v
  BY <1>1, FirstPosition
<1>3. PICK i \in T : u = n + 1 - i
  BY <1>2
<1>4. \A j \in T : n + 1 - i <= n + 1 - j
  BY <1>2, <1>3
<1> QED
  BY <1>3, <1>4

-----------------------------------------------------------------------------
(* What parse_request finds in a body that arrived whole.                  *)

LEMMA FoundFirst ==
  ASSUME NEW items \in Seq(Items), NEW p, Matching(items, p) # {}
  PROVE  \E i \in Matching(items, p) :
           /\ i \in 1 .. Len(items)
           /\ items[i].val = Found(items, p)
           /\ \A j \in 1 .. i - 1 : j \notin Matching(items, p)
<1> DEFINE first == CHOOSE i \in Matching(items, p) : \A j \in Matching(items, p) : i <= j
<1>1. Matching(items, p) \subseteq 1 .. Len(items) /\ Len(items) \in Nat
  BY DEF Matching
<1>2. first \in Matching(items, p) /\ \A j \in Matching(items, p) : first <= j
  BY <1>1, FirstPosition
<1> QED
  BY <1>1, <1>2 DEF Found

LEMMA GivenFound ==
  ASSUME NEW in \in InputType, NEW p, Given(in, in.form, p) # Missing
  PROVE  Given(in, in.form, p) \in Values \cap Sendings(in, p)
<1>1. /\ in.query \in Seq(Items) /\ in.form \in Seq(Items)
      /\ QueryOf(in) \in {<<>>, in.query} /\ FormOf(in, in.form) \in {<<>>, in.form}
  BY DEF InputType, QueryOf, FormOf
<1>2. Matching(<<>>, p) = {}
  BY DEF Matching
<1>3. ASSUME NEW items \in Seq(Items), Matching(items, p) # {}
      PROVE  \E i \in DOMAIN items : /\ items[i].key = p.key
                                     /\ items[i].val = Found(items, p) /\ items[i].val \in Values
  <2>1. PICK i \in Matching(items, p) :
          i \in 1 .. Len(items) /\ items[i].val = Found(items, p)
    BY <1>3, FoundFirst
  <2>2. i \in DOMAIN items /\ items[i].key = p.key
    BY DEF Matching
  <2>3. items[i] \in Items
    BY <2>1
  <2>4. items[i].val \in Values
    BY <2>3 DEF Items
  <2> QED
    BY <2>1, <2>2, <2>4
<1>4. CASE Matching(QueryOf(in), p) # {}
  <2>1. QueryOf(in) = in.query /\ Given(in, in.form, p) = Found(in.query, p)
    BY <1>1, <1>2, <1>4 DEF Given
  <2>2. PICK i \in DOMAIN in.query : /\ in.query[i].key = p.key
                                     /\ in.query[i].val = Found(in.query, p)
                                     /\ in.query[i].val \in Values
    BY <1>1, <1>3, <1>4, <2>1
  <2> QED
    BY <2>1, <2>2 DEF Sendings
<1>5. CASE Matching(QueryOf(in), p) = {}
  <2>1. Matching(FormOf(in, in.form), p) # {} /\ FormOf(in, in.form) = in.form
          /\ Given(in, in.form, p) = Found(in.form, p)
    BY <1>1, <1>2, <1>5 DEF Given
  <2>2. PICK i \in DOMAIN in.form : /\ in.form[i].key = p.key
                                    /\ in.form[i].val = Found(in.form, p)
                                    /\ in.form[i].val \in Values
    BY <1>1, <1>3, <2>1
  <2> QED
    BY <2>1, <2>2 DEF Sendings
<1> QED
  BY <1>4, <1>5

\* Where the client's number is read.
LEMMA LastNumber ==
  ASSUME NEW items \in Seq(Items), NEW caseSensitive, ClientNumbers(items, caseSensitive) # {},
         NEW before
  PROVE  \E i \in ClientNumbers(items, caseSensitive) :
           /\ i \in 1 .. Len(items)
           /\ LastClientTransactionId(items, caseSensitive, before) = Atoi(items[i].val)
           /\ \A j \in i + 1 .. Len(items) : j \notin ClientNumbers(items, caseSensitive)
<1> DEFINE at == ClientNumbers(items, caseSensitive)
<1> DEFINE last == CHOOSE i \in at : \A j \in at : j <= i
<1>1. at \subseteq 1 .. Len(items) /\ Len(items) \in Nat
  BY DEF ClientNumbers
<1>2. last \in at /\ \A j \in at : j <= last
  BY <1>1, LastPosition
<1>3. LastClientTransactionId(items, caseSensitive, before) = Atoi(items[last].val)
  BY DEF LastClientTransactionId
<1> QED
  BY <1>1, <1>2, <1>3

-----------------------------------------------------------------------------
(* The vocabulary of AlpacaService is that of AlpacaApi.                   *)

LEMMA SameWords ==
  /\ \A items, i : Service!Readable(items, i) = Readable(items, i)
  /\ \A v : Service!Atoi(v) = Atoi(v)
  /\ Service!Values = Values /\ Service!Missing = Missing
  /\ Service!Refused = Refused /\ Service!Crash = Crash
  /\ \A in : Service!DeviceNumber(in) = DeviceNumber(in)
  /\ \A status : Service!ErrorReply(status) = ErrorReply(status)
  /\ \A n : Service!Shown(n) = Shown(n)
BY DEF Service!Readable, Readable, Service!Atoi, Atoi, Service!Values, Values,
       Service!Missing, Missing, Service!Refused, Refused, Service!Crash, Crash,
       Service!DeviceNumber, DeviceNumber, Service!ByteRange, ByteRange,
       Service!ErrorReply, ErrorReply, Service!Shown, Shown

LEMMA SameMeanings == \A kind, v : Service!Meanings(kind, v) = Meanings(kind, v)
BY DEF Service!Meanings, Meanings, Service!LostKinds, LostKinds, Service!Lost, Lost,
       Service!AnyInteger, AnyInteger, Service!Missing, Missing, Service!Refused, Refused,
       Service!Crash, Crash, Service!Accepts, Accepts, Service!Accepted, Accepted,
       Service!Values, Values, Service!Converted, Converted, Service!LeadingInteger,
       LeadingInteger, Service!LeadingReal, LeadingReal

LEMMA SameReplies ==
  /\ \A n, m, e, whole : Service!JsonReply(n, m, e, whole) = JsonReply(n, m, e, whole)
  /\ \A ep, e : Service!Prints(ep, e) = Prints(ep, e)
BY DEF Service!JsonReply, JsonReply, Service!MessageFor, MessageFor, Service!KnownErrors,
       KnownErrors, Service!Prints, Prints, Service!MayOverflow, MayOverflow

LEMMA SameManagement == \A in : Service!IsManagement(in) <=> IsManagement(in)
<1>1. Service!ManagementEndpoints = ManagementEndpoints
  BY DEF Service!ManagementEndpoints, ManagementEndpoints, Service!ApiVersions, ApiVersions,
         Service!Description, Description, Service!ConfiguredDevices, ConfiguredDevices,
         Service!Endpoint, Endpoint
<1> QED
  BY <1>1 DEF Service!IsManagement, IsManagement

-----------------------------------------------------------------------------
(* What AlpacaService says of a request is what its handler finds.         *)

LEMMA FirstInItems ==
  ASSUME NEW items \in Seq(Items), NEW p
  PROVE  /\ Matching(items, p) # {} => Service!FirstIn(items, p, Found(items, p))
         /\ Matching(items, p) = {} => Service!NotIn(items, p)
<1>1. \A i \in DOMAIN items : Service!Names(items, i, p) <=> i \in Matching(items, p)
  BY SameWords DEF Service!Names, Matching
<1>2. CASE Matching(items, p) # {}
  <2>1. PICK i \in Matching(items, p) :
          /\ i \in 1 .. Len(items) /\ items[i].val = Found(items, p)
          /\ \A j \in 1 .. i - 1 : j \notin Matching(items, p)
    BY <1>2, FoundFirst
  <2>2. DOMAIN items = 1 .. Len(items) /\ 1 .. i - 1 \subseteq 1 .. Len(items)
    BY <2>1
  <2> QED
    BY <1>1, <1>2, <2>1, <2>2 DEF Service!FirstIn
<1>3. CASE Matching(items, p) = {}
  BY <1>1, <1>3 DEF Service!NotIn
<1> QED
  BY <1>2, <1>3

LEMMA GivenGives ==
  ASSUME NEW in \in InputType, ~in.longQuery, NEW p
  PROVE  Service!Gives(in, p, Given(in, in.form, p))
<1>1. /\ in.query \in Seq(Items) /\ FormOf(in, in.form) \in Seq(Items)
      /\ QueryOf(in) = in.query /\ Service!Form(in) = FormOf(in, in.form)
  BY DEF InputType, QueryOf, FormOf, Service!Form
<1>2. CASE Matching(in.query, p) # {}
  BY <1>1, <1>2, FirstInItems DEF Given, Service!Gives
<1>3. CASE Matching(in.query, p) = {} /\ Matching(FormOf(in, in.form), p) # {}
  BY <1>1, <1>3, FirstInItems DEF Given, Service!Gives
<1>4. CASE Matching(in.query, p) = {} /\ Matching(FormOf(in, in.form), p) = {}
  BY <1>1, <1>4, FirstInItems, SameWords DEF Given, Service!Gives
<1> QED
  BY <1>2, <1>3, <1>4

\* What the handler may make of a parameter is what the request may mean.
LEMMA ReadingMeans ==
  ASSUME NEW in \in InputType, ~in.longQuery, NEW i \in DOMAIN in.ep.params,
         NEW m \in Readings(in.ep, Parsed(in, in.form).values, i)
  PROVE  Service!Means(in, i, m)
<1> DEFINE p == in.ep.params[i]
<1> DEFINE v == Given(in, in.form, p)
<1>1. m \in Meanings(p.kind, v)
  BY DEF Readings, Parsed
<1>2. Service!Gives(in, p, v)
  BY GivenGives
<1>3. v \in Service!Values \cup {Service!Missing}
  BY GivenFound, SameWords
<1> HIDE DEF v
<1> QED
  BY <1>1, <1>2, <1>3, SameMeanings DEF Service!Means

LEMMA NumberEchoed ==
  ASSUME NEW in \in InputType
  PROVE  Service!Echoes(in, ClientTransactionId(in, in.form))
<1> DEFINE query == QueryOf(in)
<1> DEFINE form == FormOf(in, in.form)
<1>1. query \in Seq(Items) /\ form \in Seq(Items)
  BY DEF InputType, QueryOf, FormOf
<1>2. ASSUME NEW items \in Seq(Items), NEW cs, NEW before, ClientNumbers(items, cs) # {}
      PROVE  Service!LastIn(items, cs, LastClientTransactionId(items, cs, before))
  <2>1. PICK i \in ClientNumbers(items, cs) :
           /\ i \in 1 .. Len(items)
           /\ LastClientTransactionId(items, cs, before) = Atoi(items[i].val)
           /\ \A j \in i + 1 .. Len(items) : j \notin ClientNumbers(items, cs)
    BY <1>2, LastNumber
  <2>2. DOMAIN items = 1 .. Len(items) /\ i + 1 .. Len(items) \subseteq 1 .. Len(items)
    BY <2>1
  <2> QED
    BY <2>1, <2>2, SameWords DEF Service!LastIn, ClientNumbers
<1>3. ASSUME NEW items \in Seq(Items), NEW cs \in BOOLEAN, ClientNumbers(items, cs) = {}
      PROVE  ~Service!HasNumber(items, cs) /\ \A n : LastClientTransactionId(items, cs, n) = n
  BY <1>3, SameWords DEF Service!HasNumber, Service!LastIn, ClientNumbers, LastClientTransactionId
<1>4. CASE in.longQuery
  <2>1. ClientNumbers(query, FALSE) = {} /\ ClientNumbers(form, TRUE) = {}
    BY <1>4 DEF QueryOf, FormOf, ClientNumbers
  <2> QED
    BY <1>1, <1>3, <1>4, <2>1 DEF ClientTransactionId, Service!Echoes
<1>5. CASE ~in.longQuery
  <2>1. query = in.query /\ Service!Form(in) = form
    BY <1>5 DEF QueryOf, FormOf, Service!Form
  <2> HIDE DEF query, form
  <2>2. ClientTransactionId(in, in.form)
          = LastClientTransactionId(form, TRUE, LastClientTransactionId(query, FALSE, 0))
    BY DEF ClientTransactionId, query, form
  <2>3. CASE ClientNumbers(form, TRUE) # {}
    BY <1>1, <1>2, <1>5, <2>1, <2>2, <2>3 DEF Service!Echoes
  <2>4. CASE ClientNumbers(form, TRUE) = {}
    <3>1. ~Service!HasNumber(form, TRUE)
      BY <1>1, <1>3, <2>4
    <3>2. ClientTransactionId(in, in.form) = LastClientTransactionId(query, FALSE, 0)
      BY <1>1, <1>3, <2>2, <2>4
    <3>3. CASE ClientNumbers(query, FALSE) # {}
      <4>1. Service!LastIn(query, FALSE, LastClientTransactionId(query, FALSE, 0))
        BY <1>1, <1>2, <3>3
      <4> QED
        BY <1>5, <2>1, <3>1, <3>2, <4>1 DEF Service!Echoes
    <3>4. CASE ClientNumbers(query, FALSE) = {}
      <4>1. ~Service!HasNumber(query, FALSE) /\ LastClientTransactionId(query, FALSE, 0) = 0
        BY <1>1, <1>3, <3>4
      <4> QED
        BY <1>5, <2>1, <3>1, <3>2, <4>1 DEF Service!Echoes
    <3> QED
      BY <3>3, <3>4
  <2> QED
    BY <2>3, <2>4
<1> QED
  BY <1>4, <1>5

-----------------------------------------------------------------------------
(* While bodies arrive whole: what a task has parsed is what its request   *)
(* says, and a driver was called with what that means.                     *)

Read(in) == Parsed(in, in.form)
Served(in) == ~IsManagement(in) /\ ParseResult(in) = "ok"

\* What tasks know of their requests.
Knows(w) ==
  LET in == input[cur[w]] IN
  /\ pc[w] \in {"handle", "reply"} =>
       parsed[w] = Read(in) /\ (IsManagement(in) \/ Served(in))
  /\ pc[w] \in {"lock", "load", "store", "parse", "handle"} => args[cur[w]] = None
  /\ pc[w] = "reply" => IF IsManagement(in) THEN err[w] = 0 ELSE args[cur[w]] # None

\* What drivers were called with.
Called(r) ==
  args[r] # None =>
    /\ input[r] \in Inputs /\ Served(input[r])
    /\ args[r] \in Arguments(input[r].ep, Read(input[r]).values)

KnowledgeInv == (\A w \in Workers : Knows(w)) /\ \A r \in Requests : Called(r)

\* A step of one task on its own request leaves what others know.
LEMMA OthersKnow ==
  ASSUME NumbersInv, KnowledgeInv, NEW w \in Workers, NEW r,
         NEW v \in Workers, v # w, pc[v] # "idle" => cur[v] # r,
         pc'[v] = pc[v], cur'[v] = cur[v], parsed'[v] = parsed[v], err'[v] = err[v],
         \A q \in Requests : q # r => input'[q] = input[q] /\ args'[q] = args[q]
  PROVE  Knows(v)'
<1>1. Knows(v)
  BY DEF KnowledgeInv
<1>2. CASE pc[v] = "idle"
  BY <1>2 DEF Knows
<1>3. CASE pc[v] # "idle"
  <2>1. cur[v] \in Requests /\ cur[v] # r
    BY <1>3, NoneAssumption DEF NumbersInv, TypeOK
  <2>2. input'[cur'[v]] = input[cur[v]] /\ args'[cur'[v]] = args[cur[v]]
    BY <2>1
  <2> QED
    BY <1>1, <2>2 DEF Knows
<1> QED
  BY <1>2, <1>3

LEMMA WholeParse ==
  ASSUME ~SegmentedBodies, NEW w \in Workers, Parse(w)
  PROVE  parsed' = [parsed EXCEPT ![w] = Read(input[cur[w]])]
BY DEF Parse, Received, Read

LEMMA ArgumentsAreCalls ==
  ASSUME NEW in \in Inputs, NEW a \in Arguments(in.ep, Read(in).values)
  PROVE  a # None
<1> DEFINE T == Values \cup {"0", "NaN"}
<1>1. ASSUME NEW kind, NEW v \in Values \cup {Missing}
      PROVE  Meanings(kind, v) \subseteq T \cup {Refused, Crash}
  <2>1. CASE kind \in LostKinds
    BY <2>1 DEF Meanings, Lost, AnyInteger, Values
  <2>2. CASE kind \notin LostKinds
    <3>1. v \in Values => Converted(kind, v) \in T
      BY DEF Converted, LeadingInteger, LeadingReal, Values
    <3> QED
      BY <2>2, <3>1 DEF Meanings
  <2> QED
    BY <2>1, <2>2
<1>2. \A i \in DOMAIN in.ep.params : Given(in, in.form, in.ep.params[i]) \in Values \cup {Missing}
  BY GivenFound, InputsAssumption
<1>3. \A i \in DOMAIN in.ep.params : Readings(in.ep, Read(in).values, i) \subseteq T \cup {Refused, Crash}
  BY <1>1, <1>2 DEF Readings, Read, Parsed
<1> HIDE DEF T
<1> DEFINE R ==
  (UNION {Readings(in.ep, Read(in).values, i) : i \in DOMAIN in.ep.params}) \ {Refused, Crash}
<1>4. a = [i \in DOMAIN in.ep.params |-> a[i]]
  <2>1. a \in [DOMAIN in.ep.params -> R]
    BY Zenon DEF Arguments
  <2> QED
    BY <2>1
<1>5. \A i \in DOMAIN in.ep.params : a[i] \in R /\ a[i] \in Readings(in.ep, Read(in).values, i)
  BY Zenon DEF Arguments
<1> HIDE DEF R
<1>6. a \in [DOMAIN in.ep.params -> T]
  BY <1>3, <1>4, <1>5 DEF R
<1> QED
  BY <1>6, NoArgumentsAssumption DEF T

LEMMA KnowledgeStep ==
  ASSUME ~SegmentedBodies, NumbersInv, KnowledgeInv, [Next]_vars
  PROVE  KnowledgeInv'
<1> USE NoneAssumption
<1>1. ASSUME NEW w \in Workers, NEW r \in Requests, NEW in \in Inputs, Accept(w, r, in)
      PROVE  KnowledgeInv'
  <2>1. /\ pc' = [pc EXCEPT ![w] = "lock"] /\ cur' = [cur EXCEPT ![w] = r]
        /\ input[r] = None /\ input' = [input EXCEPT ![r] = in]
        /\ UNCHANGED <<parsed, err, args>>
    BY <1>1 DEF Accept, Goto
  <2>2. \A v \in Workers : cur[v] # r
    BY <2>1 DEF NumbersInv, OneHandler
  <2>3. args[r] = None
    BY <2>1 DEF KnowledgeInv, Called
  <2>4. \A v \in Workers : Knows(v)'
    <3>1. ASSUME NEW v \in Workers, v # w PROVE Knows(v)'
      BY <2>1, <2>2, <3>1, OthersKnow DEF NumbersInv, TypeOK
    <3>2. Knows(w)'
      <4>1. pc'[w] = "lock" /\ cur'[w] = r
        BY <2>1 DEF NumbersInv, TypeOK
      <4> QED
        BY <2>1, <2>3, <4>1 DEF Knows
    <3> QED
      BY <3>1, <3>2
  <2>5. \A q \in Requests : Called(q)'
    BY <2>1, <2>3 DEF KnowledgeInv, Called, NumbersInv, TypeOK
  <2> QED
    BY <2>4, <2>5 DEF KnowledgeInv
<1>2. ASSUME NEW w \in Workers, Lock(w) \/ Load(w) \/ Store(w) \/ Abort(w) PROVE KnowledgeInv'
  <2>1. /\ pc[w] \in {"lock", "load", "store", "handle"}
        /\ UNCHANGED <<cur, parsed, err, input, args>>
    BY <1>2 DEF Lock, Load, Store, Abort, At
  <2>2. \E label \in {"load", "store", "parse", "aborted"} : pc' = [pc EXCEPT ![w] = label]
    BY <1>2 DEF Lock, Load, Store, Abort, Goto
  <2>3. \A v \in Workers : Knows(v)'
    BY <2>1, <2>2 DEF KnowledgeInv, Knows, NumbersInv, TypeOK
  <2>4. \A q \in Requests : Called(q)'
    BY <2>1 DEF KnowledgeInv, Called
  <2> QED
    BY <2>3, <2>4 DEF KnowledgeInv
<1>3. ASSUME NEW w \in Workers, Parse(w) PROVE KnowledgeInv'
  <2>1. /\ pc[w] = "parse" /\ pc' = [pc EXCEPT ![w] = "handle"]
        /\ UNCHANGED <<cur, err, input, args>>
        /\ IsManagement(input[cur[w]]) \/ Served(input[cur[w]])
    BY <1>3 DEF Parse, At, Goto, Served
  <2>2. parsed' = [parsed EXCEPT ![w] = Read(input[cur[w]])]
    BY <1>3, WholeParse
  <2>3. ASSUME NEW v \in Workers, v # w PROVE Knows(v)'
    BY <2>1, <2>2, <2>3 DEF KnowledgeInv, Knows, NumbersInv, TypeOK
  <2>4. Knows(w)'
    <3>1. pc'[w] = "handle" /\ parsed'[w] = Read(input[cur[w]]) /\ args[cur[w]] = None
      BY <2>1, <2>2 DEF KnowledgeInv, Knows, NumbersInv, TypeOK
    <3> QED
      BY <2>1, <3>1 DEF Knows
  <2>5. \A q \in Requests : Called(q)'
    BY <2>1 DEF KnowledgeInv, Called
  <2> QED
    BY <2>3, <2>4, <2>5 DEF KnowledgeInv
<1>4. ASSUME NEW w \in Workers, CallDriver(w) \/ Describe(w) PROVE KnowledgeInv'
  <2>1. /\ pc[w] = "handle" /\ pc' = [pc EXCEPT ![w] = "reply"]
        /\ UNCHANGED <<cur, parsed, input>>
    BY <1>4 DEF CallDriver, Describe, At, Goto
  <2>2. cur[w] \in Requests /\ input[cur[w]] \in Inputs
    BY <2>1 DEF NumbersInv, TypeOK, OneHandler
  <2>3. /\ parsed[w] = Read(input[cur[w]])
        /\ IsManagement(input[cur[w]]) \/ Served(input[cur[w]])
    BY <2>1 DEF KnowledgeInv, Knows
  <2>4. PICK e : err' = [err EXCEPT ![w] = e] /\ (Describe(w) => e = 0)
    BY <1>4 DEF CallDriver, Describe, At
  <2>5. \/ IsManagement(input[cur[w]]) /\ UNCHANGED args /\ e = 0
        \/ /\ Served(input[cur[w]])
           /\ \E a \in Arguments(input[cur[w]].ep, Read(input[cur[w]]).values) :
                args' = [args EXCEPT ![cur[w]] = a]
    BY <1>4, <2>3, <2>4 DEF CallDriver, Describe, Served
  <2>6. \A q \in Requests : q # cur[w] => args'[q] = args[q]
    BY <2>5 DEF NumbersInv, TypeOK
  <2>7. ASSUME NEW v \in Workers, v # w PROVE Knows(v)'
    <3>1. pc[v] # "idle" => cur[v] # cur[w]
      BY <2>2, <2>7 DEF NumbersInv, OneHandler
    <3>2. pc'[v] = pc[v] /\ cur'[v] = cur[v] /\ parsed'[v] = parsed[v] /\ err'[v] = err[v]
      BY <2>1, <2>4, <2>7 DEF NumbersInv, TypeOK
    <3>3. \A q \in Requests : q # cur[w] => input'[q] = input[q] /\ args'[q] = args[q]
      BY <2>1, <2>6
    <3> QED
      BY <2>7, <3>1, <3>2, <3>3, OthersKnow
  <2>8. CASE IsManagement(input[cur[w]]) /\ UNCHANGED args /\ e = 0
    <3>1. pc'[w] = "reply" /\ err'[w] = 0
      BY <2>1, <2>4, <2>8 DEF NumbersInv, TypeOK
    <3>2. Knows(w)'
      BY <2>1, <2>3, <2>8, <3>1 DEF Knows
    <3>3. \A q \in Requests : Called(q)'
      BY <2>1, <2>8 DEF KnowledgeInv, Called
    <3> QED
      BY <2>7, <3>2, <3>3 DEF KnowledgeInv
  <2>9. ASSUME Served(input[cur[w]]),
               NEW a \in Arguments(input[cur[w]].ep, Read(input[cur[w]]).values),
               args' = [args EXCEPT ![cur[w]] = a]
        PROVE  KnowledgeInv'
    <3>1. pc'[w] = "reply" /\ args'[cur[w]] = a /\ a # None
      BY <2>1, <2>2, <2>9, ArgumentsAreCalls DEF NumbersInv, TypeOK
    <3>2. Knows(w)'
      BY <2>1, <2>3, <2>9, <3>1 DEF Knows, Served
    <3>3. \A q \in Requests : Called(q)'
      BY <2>1, <2>2, <2>6, <2>9, <3>1 DEF KnowledgeInv, Called
    <3> QED
      BY <2>7, <3>2, <3>3 DEF KnowledgeInv
  <2> QED
    BY <2>5, <2>8, <2>9
<1>5. ASSUME NEW w \in Workers, Ends(w) PROVE KnowledgeInv'
  <2>1. /\ cur[w] \in Requests /\ pc' = [pc EXCEPT ![w] = "idle"]
        /\ cur' = [cur EXCEPT ![w] = None] /\ UNCHANGED <<input, args>>
    BY <1>5, Endings DEF NumbersInv
  <2>2. parsed' = [parsed EXCEPT ![w] = Unparsed] /\ UNCHANGED err
    BY <1>5 DEF Ends, Refuses, Refuse, RejectArguments, RejectFailedCall, Reply, Finish
  <2>3. \A v \in Workers : Knows(v)'
    BY <2>1, <2>2 DEF KnowledgeInv, Knows, NumbersInv, TypeOK
  <2>4. \A q \in Requests : Called(q)'
    BY <2>1 DEF KnowledgeInv, Called
  <2> QED
    BY <2>3, <2>4 DEF KnowledgeInv
<1>6. CASE UNCHANGED vars
  BY <1>6 DEF vars, taskVars, txVars, KnowledgeInv, Knows, Called
<1> QED
  BY <1>1, <1>2, <1>3, <1>4, <1>5, <1>6, Steps DEF Continues

LEMMA Knowledge == ~SegmentedBodies => (Spec => [](NumbersInv /\ KnowledgeInv))
<1> SUFFICES ASSUME ~SegmentedBodies PROVE Spec => [](NumbersInv /\ KnowledgeInv)
  OBVIOUS
<1>1. Init => KnowledgeInv
  BY DEF Init, KnowledgeInv, Knows, Called
<1>2. NumbersInv /\ KnowledgeInv /\ [Next]_vars => KnowledgeInv'
  BY KnowledgeStep
<1> QED
  BY <1>1, <1>2, NumbersInvariant, PTL DEF Spec

\* No parameter of an endpoint with a route is of a kind that loses the value.
Plain(endpoints) == \A e \in endpoints : \A i \in DOMAIN e.params : e.params[i].kind \notin LostKinds

LEMMA PlainGroups ==
  /\ \A type, names, value : Plain(Gets(type, names, value))
  /\ \A type, names : Plain(Commands(type, names))
  /\ \A type, name, key, kind : kind \notin LostKinds => Plain(Put(type, name, <<Param(key, kind)>>))
  /\ \A type, name, key1, key2, kind1, kind2 :
       kind1 \notin LostKinds /\ kind2 \notin LostKinds =>
         Plain(Put(type, name, <<Param(key1, kind1), Param(key2, kind2)>>))
  /\ \A name, value : Plain(SwitchGet(name, value))
<1>1. \A type, names, value : Plain(Gets(type, names, value)) /\ Plain(Commands(type, names))
  BY DEF Plain, Gets, Commands, Endpoint
<1>2. ASSUME NEW type, NEW name, NEW key, NEW kind, kind \notin LostKinds
      PROVE  Plain(Put(type, name, <<Param(key, kind)>>))
  BY <1>2 DEF Plain, Put, Endpoint, Param
<1>3. ASSUME NEW type, NEW name, NEW key1, NEW key2, NEW kind1, NEW kind2,
             kind1 \notin LostKinds, kind2 \notin LostKinds
      PROVE  Plain(Put(type, name, <<Param(key1, kind1), Param(key2, kind2)>>))
  BY <1>3 DEF Plain, Put, Endpoint, Param
<1>4. \A name, value : Plain(SwitchGet(name, value))
  BY DEF Plain, SwitchGet, Endpoint, AnyCase, LostKinds
<1> QED
  BY <1>1, <1>2, <1>3, <1>4

LEMMA PlainKinds ==
  /\ "text" \notin LostKinds /\ "bool" \notin LostKinds /\ "atoi" \notin LostKinds
  /\ "long" \notin LostKinds /\ "real" \notin LostKinds
BY DEF LostKinds

LEMMA PlainUnions ==
  ASSUME NEW S, NEW T, Plain(S), Plain(T) PROVE Plain(S \cup T)
BY DEF Plain

LEMMA PlainEndpoints == Plain(DeviceEndpoints)
<1> USE PlainGroups, PlainKinds
<1>1. ASSUME NEW type PROVE Plain(Common(type))
  <2>1. Plain(CommonCommands(type))
    BY DEF CommonCommands, Plain, Endpoint, Param
  <2>2. Plain(CommonConnected(type)) /\ Plain(CommonInfo(type))
    BY DEF CommonConnected, CommonInfo, Plain
  <2> QED
    BY <2>1, <2>2 DEF Common, Plain
<1>2. Plain(CoverCalibratorState \cup CoverCalibratorCommands)
  BY DEF CoverCalibratorState, CoverCalibratorCommands, Plain
<1>3. Plain(DomePosition \cup DomeAbilities \cup DomeMoreAbilities
               \cup DomeStatus \cup DomeCommands \cup DomeMotion)
  <2>1. Plain(DomePosition) /\ Plain(DomeAbilities) /\ Plain(DomeMoreAbilities) /\ Plain(DomeCommands)
    BY PlainUnions DEF DomePosition, DomeAbilities, DomeMoreAbilities, DomeCommands
  <2>2. Plain(DomeStatus)
    BY PlainUnions DEF DomeStatus
  <2>3. Plain(DomeMotion)
    <3>1. Plain(Put("dome", "slewtoaltitude", <<Param("Altitude", "real")>>))
      OBVIOUS
    <3>2. \A n : Plain(Put("dome", n, <<Param("Azimuth", "real")>>))
      OBVIOUS
    <3>3. Plain(UNION {Put("dome", n, <<Param("Azimuth", "real")>>) :
                         n \in {"slewtoazimuth", "synctoazimuth"}})
      BY <3>2, Zenon DEF Plain
    <3>4. Plain(Commands("dome", {"setpark"}))
      OBVIOUS
    <3> QED
      BY <3>1, <3>3, <3>4, PlainUnions DEF DomeMotion
  <2> QED
    BY <2>1, <2>2, <2>3, PlainUnions
<1>4. Plain(FilterWheel)
  BY DEF FilterWheel, Plain
<1>5. Plain(FocuserLimits \cup FocuserState \cup FocuserMotion)
  BY DEF FocuserLimits, FocuserState, FocuserMotion, Plain
<1>6. Plain(ObservingAverages \cup ObservingAir \cup ObservingSky \cup ObservingWind
               \cup ObservingSensors)
  <2>1. Plain(ObservingSensors)
    BY DEF ObservingSensors, Plain, Endpoint, Param
  <2> QED
    BY <2>1 DEF ObservingAverages, ObservingAir, ObservingSky, ObservingWind, Plain
<1>7. Plain(RotatorPosition \cup RotatorState \cup RotatorMotion \cup RotatorCalibration)
  <2>1. Plain(RotatorPosition) /\ Plain(RotatorState)
    BY PlainUnions DEF RotatorPosition, RotatorState
  <2>2. \A n : Plain(Put("rotator", n, <<Param("Position", "real")>>))
    OBVIOUS
  <2>3. \A names : Plain(UNION {Put("rotator", n, <<Param("Position", "real")>>) : n \in names})
    BY <2>2, Zenon DEF Plain
  <2>4. Plain(RotatorMotion) /\ Plain(RotatorCalibration)
    BY <2>3, PlainUnions DEF RotatorMotion, RotatorCalibration
  <2> QED
    BY <2>1, <2>4, PlainUnions
<1>8. Plain(SafetyMonitor)
  BY DEF SafetyMonitor
<1>9. Plain(SwitchState \cup SwitchTexts \cup SwitchRange \cup SwitchSetters \cup SwitchStep)
  <2>1. \A name, value : Plain(SwitchGet(name, value))
    OBVIOUS
  <2>2. Plain(SwitchRange)
    <3>1. Plain(UNION {SwitchGet(n, "number") : n \in {"getswitchvalue", "minswitchvalue", "maxswitchvalue"}})
      BY <2>1, Zenon DEF Plain
    <3> QED
      BY <3>1 DEF SwitchRange
  <2>3. Plain(SwitchState) /\ Plain(SwitchTexts) /\ Plain(SwitchStep)
    BY <2>1, PlainUnions DEF SwitchState, SwitchTexts, SwitchStep
  <2>4. Plain(SwitchSetters)
    BY PlainUnions DEF SwitchSetters
  <2> QED
    BY <2>2, <2>3, <2>4, PlainUnions
<1>10. ASSUME NEW type \in DeviceTypes PROVE Plain(EndpointsOf[type])
  <2>1. Plain({})
    BY DEF Plain
  <2> USE <1>1, PlainUnions DEF EndpointsOf, DeviceTypes
  <2>2. CASE type = "covercalibrator"
    BY <2>2, <1>2
  <2>3. CASE type = "dome"
    BY <2>3, <1>3
  <2>4. CASE type = "filterwheel"
    BY <2>4, <1>4
  <2>5. CASE type = "focuser"
    BY <2>5, <1>5
  <2>6. CASE type = "observingconditions"
    BY <2>6, <1>6
  <2>7. CASE type = "rotator"
    BY <2>7, <1>7
  <2>8. CASE type = "safetymonitor"
    BY <2>8, <1>8
  <2>9. CASE type = "switch"
    BY <2>9, <1>9
  <2>10. CASE type \in {"camera", "telescope"}
    <3>1. EndpointsOf[type] = Common(type) \cup {}
      BY <2>10
    <3> QED
      BY <2>1, <3>1
  <2> QED
    BY <2>2, <2>3, <2>4, <2>5, <2>6, <2>7, <2>8, <2>9, <2>10
<1> QED
  BY <1>10 DEF DeviceEndpoints, Plain

\* As long as bodies arrive whole, a handler that a route reaches calls its driver
\* only with values its client sent under the names of the parameters, each a valid
\* one of its kind and converted; a telescope handler does for the parameters whose
\* kind keeps the value.  For bodies in pieces the run api_cut shows the opposite.
THEOREM ValidCalls == ~SegmentedBodies => (Spec => []DriverSeesValidRequests)
<1> SUFFICES ASSUME ~SegmentedBodies PROVE Spec => []DriverSeesValidRequests
  OBVIOUS
<1>1. KnowledgeInv => DriverSeesValidRequests
  <2> SUFFICES ASSUME KnowledgeInv, NEW r \in Requests, args[r] # None,
                      NEW i \in DOMAIN args[r],
                      ~(/\ input[r].ep.params[i].kind \in LostKinds
                        /\ input[r].ep \in TelescopeHandlers)
               PROVE  WasSent(input[r], i, args[r][i])
    BY DEF DriverSeesValidRequests
  <2> DEFINE in == input[r]
  <2> DEFINE p == in.ep.params[i]
  <2> DEFINE v == Given(in, in.form, p)
  <2>1. in \in InputType /\ args[r] \in Arguments(in.ep, Read(in).values)
    BY InputsAssumption DEF KnowledgeInv, Called
  <2>2. DOMAIN args[r] = DOMAIN in.ep.params
    BY <2>1, Zenon DEF Arguments
  <2>0. p.kind \notin LostKinds
    <3>1. in.ep \in DeviceEndpoints \/ in.ep \in TelescopeHandlers
      BY <2>1 DEF KnowledgeInv, Called, Served, IsManagement, InputType
    <3>2. in.ep \in DeviceEndpoints => p.kind \notin LostKinds
      BY <2>2, PlainEndpoints DEF Plain
    <3> QED
      BY <3>1, <3>2
  <2>3. /\ args[r][i] \in Readings(in.ep, Read(in).values, i)
        /\ args[r][i] \notin {Refused, Crash}
    BY <2>1, <2>2, Zenon DEF Arguments
  <2>4. args[r][i] \in Meanings(p.kind, v)
    BY <2>2, <2>3 DEF Readings, Read, Parsed
  <2> HIDE DEF v
  <2>5. v # Missing /\ v \in Accepts(p.kind) /\ args[r][i] = Converted(p.kind, v)
    BY <2>0, <2>3, <2>4 DEF Meanings
  <2>6. v \in Sendings(in, p)
    BY <2>1, <2>5, GivenFound DEF v
  <2> QED
    BY <2>5, <2>6 DEF WasSent
<1> QED
  BY <1>1, Knowledge, PTL

-----------------------------------------------------------------------------
(* AlpacaApi implements AlpacaService.                                     *)

\* The types of the endpoints.
OfType(endpoints, type) == \A e \in endpoints : e.type = type

LEMMA TypesOfGroups ==
  ASSUME NEW type
  PROVE  /\ \A verb, name, params, value : Endpoint(type, verb, name, params, value).type = type
         /\ \A names, value : OfType(Gets(type, names, value), type)
         /\ \A names : OfType(Commands(type, names), type)
         /\ \A name, params : OfType(Put(type, name, params), type)
BY DEF Endpoint, Gets, Commands, Put, OfType

LEMMA TypesOfTelescope == OfType(TelescopeHandlers, "telescope")
<1>1. \A names, value : OfType(Reads(names, value), "telescope")
  BY DEF Reads, HidingErrors, Gets, Endpoint, OfType
<1>2. \A names : OfType(Moves(names), "telescope")
  BY DEF Moves, HidingErrors, Commands, Endpoint, OfType
<1>3. \A name, key, kind : OfType(Sets(name, key, kind), "telescope")
  BY TypesOfGroups DEF Sets
<1>4. \A name, k1, k2, kind1, kind2 : OfType(SetsTwo(name, k1, k2, kind1, kind2), "telescope")
  BY TypesOfGroups DEF SetsTwo
<1>5. \A name, params, value : OfType(Asks(name, params, value), "telescope")
  BY TypesOfGroups DEF Asks, OfType
<1> USE <1>1, <1>2, <1>3, <1>4, <1>5 DEF OfType
<1>6. OfType(TelescopeOptics \cup TelescopePosition \cup TelescopeAbilities1 \cup TelescopeAbilities2
               \cup TelescopeAbilities3 \cup TelescopeAbilities4, "telescope")
  BY DEF TelescopeOptics, TelescopePosition, TelescopeAbilities1, TelescopeAbilities2,
         TelescopeAbilities3, TelescopeAbilities4
<1>7. OfType(TelescopeDeclination \cup TelescopeGuiding1 \cup TelescopeGuiding2 \cup TelescopePier
               \cup TelescopeSite1 \cup TelescopeSite2, "telescope")
  BY DEF TelescopeDeclination, TelescopeGuiding1, TelescopeGuiding2, TelescopePier,
         TelescopeSite1, TelescopeSite2
<1>8. OfType(TelescopeTarget1 \cup TelescopeTarget2 \cup TelescopeRates \cup TelescopeAxes
               \cup TelescopeQuestions \cup TelescopeMotion \cup TelescopeSlews
               \cup TelescopeSyncs, "telescope")
  BY DEF TelescopeTarget1, TelescopeTarget2, TelescopeRates, TelescopeAxes,
         TelescopeQuestions, TelescopeMotion, TelescopeSlews, TelescopeSyncs
<1> QED
  BY <1>6, <1>7, <1>8 DEF TelescopeHandlers

LEMMA TypesOfDevices ==
  ASSUME NEW type \in DeviceTypes
  PROVE  OfType(EndpointsOf[type], type)
<1> USE TypesOfGroups DEF OfType
<1>1. OfType(Common(type), type)
  BY DEF Common, CommonCommands, CommonConnected, CommonInfo
<1>2. OfType(CoverCalibratorState \cup CoverCalibratorCommands, "covercalibrator")
  BY DEF CoverCalibratorState, CoverCalibratorCommands
<1>3. OfType(DomePosition \cup DomeAbilities \cup DomeMoreAbilities \cup DomeStatus
               \cup DomeCommands \cup DomeMotion, "dome")
  BY DEF DomePosition, DomeAbilities, DomeMoreAbilities, DomeStatus, DomeCommands, DomeMotion
<1>4. OfType(FilterWheel, "filterwheel")
  BY DEF FilterWheel
<1>5. OfType(FocuserLimits \cup FocuserState \cup FocuserMotion, "focuser")
  BY DEF FocuserLimits, FocuserState, FocuserMotion
<1>6. OfType(ObservingAverages \cup ObservingAir \cup ObservingSky \cup ObservingWind
               \cup ObservingSensors, "observingconditions")
  BY DEF ObservingAverages, ObservingAir, ObservingSky, ObservingWind, ObservingSensors
<1>7. OfType(RotatorPosition \cup RotatorState \cup RotatorMotion \cup RotatorCalibration, "rotator")
  BY DEF RotatorPosition, RotatorState, RotatorMotion, RotatorCalibration
<1>8. OfType(SafetyMonitor, "safetymonitor")
  BY DEF SafetyMonitor
<1>9. OfType(SwitchState \cup SwitchTexts \cup SwitchRange \cup SwitchSetters \cup SwitchStep,
             "switch")
  BY DEF SwitchState, SwitchTexts, SwitchRange, SwitchSetters, SwitchStep, SwitchGet
<1> QED
  BY <1>1, <1>2, <1>3, <1>4, <1>5, <1>6, <1>7, <1>8, <1>9 DEF EndpointsOf, DeviceTypes

LEMMA CountOfDevices ==
  ASSUME NEW in \in InputType, ~IsManagement(in)
  PROVE  NumDevices[in.ep.type] \in Nat /\ DeviceNumber(in) \in Nat
<1>1. in.ep \in DeviceEndpoints \cup TelescopeHandlers /\ in.number \in Nat
  BY DEF InputType, IsManagement
<1>2. in.ep.type \in DeviceTypes
  BY <1>1, TypesOfTelescope, TypesOfDevices DEF DeviceEndpoints, OfType, DeviceTypes
<1> QED
  BY <1>1, <1>2, DevicesAssumption DEF DeviceNumber, ByteRange

LEMMA RefusalAnswers ==
  ASSUME ~SegmentedBodies, NumbersInv, KnowledgeInv, NEW w \in Workers, Refuses(w)
  PROVE  \E status \in {400, 404} :
           /\ Finish(w, ErrorReply(status))
           /\ Service!MayAnswer(cur[w], ErrorReply(status))
<1> DEFINE in == input[cur[w]]
<1>1. cur[w] \in Requests /\ in \in InputType
  BY InputsAssumption, NoneAssumption
     DEF Refuses, Refuse, RejectArguments, RejectFailedCall, At, NumbersInv, TypeOK, OneHandler
<1>2. CASE Refuse(w)
  <2>1. pc[w] = "parse" /\ ~IsManagement(in) /\ ParseResult(in) # "ok"
    BY <1>2 DEF Refuse, At
  <2>2. args[cur[w]] = None
    BY <2>1 DEF KnowledgeInv, Knows
  <2>3. CASE in.longQuery
    <3>1. ParseResult(in) = "invalidSize"
      BY <2>3 DEF ParseResult
    <3>2. Finish(w, ErrorReply(400))
      BY <1>2, <3>1 DEF Refuse
    <3> QED
      BY <2>1, <2>2, <2>3, <3>2, SameManagement, SameWords DEF Service!MayAnswer
  <2>4. CASE ~in.longQuery
    <3>1. ParseResult(in) = "notFound" /\ ~Service!HasDevice(in)
      BY <1>1, <2>1, <2>4, CountOfDevices, SameWords DEF ParseResult, Service!HasDevice
    <3>2. Finish(w, ErrorReply(404))
      BY <1>2, <3>1 DEF Refuse
    <3> QED
      BY <2>1, <3>1, <3>2, SameManagement, SameWords DEF Service!MayAnswer
  <2> QED
    BY <2>3, <2>4
<1>3. CASE RejectArguments(w)
  <2>1. pc[w] = "handle" /\ ~IsManagement(in) /\ MayRefuse(in.ep, parsed[w].values)
          /\ Finish(w, ErrorReply(400))
    BY <1>3 DEF RejectArguments, At
  <2>2. parsed[w] = Read(in) /\ Served(in) /\ args[cur[w]] = None
    BY <2>1 DEF KnowledgeInv, Knows
  <2>3. ~in.longQuery
    BY <2>2 DEF Served, ParseResult
  <2>4. PICK i \in DOMAIN in.ep.params : Refused \in Readings(in.ep, Read(in).values, i)
    BY <2>1, <2>2 DEF MayRefuse
  <2>5. Service!Means(in, i, Service!Refused)
    BY <1>1, <2>3, <2>4, ReadingMeans, SameWords DEF Read
  <2> QED
    BY <2>1, <2>2, <2>5, SameManagement, SameWords DEF Service!MayAnswer
<1>4. CASE RejectFailedCall(w)
  <2>1. pc[w] = "reply" /\ err[w] # 0 /\ in.ep.hidesErrors /\ Finish(w, ErrorReply(400))
    BY <1>4 DEF RejectFailedCall, HidesError, At
  <2>2. args[cur[w]] # None
    BY <2>1 DEF KnowledgeInv, Knows
  <2> QED
    BY <2>1, <2>2, SameWords DEF Service!MayAnswer
<1> QED
  BY <1>2, <1>3, <1>4 DEF Refuses

LEMMA ReplyAnswers ==
  ASSUME ~SegmentedBodies, NumbersInv, KnowledgeInv, NEW w \in Workers, Reply(w)
  PROVE  \E answer \in Replies : Finish(w, answer) /\ Service!MayAnswer(cur[w], answer)
<1> DEFINE in == input[cur[w]]
<1>1. pc[w] = "reply" /\ ~HidesError(w) /\ cur[w] \in Requests
  BY DEF Reply, At, NumbersInv, TypeOK
<1>2. in \in InputType /\ err[w] \in DriverErrors \cup {0}
  BY <1>1, InputsAssumption, NoneAssumption DEF NumbersInv, TypeOK, OneHandler
<1>3. /\ parsed[w] = Read(in)
      /\ IF IsManagement(in) THEN err[w] = 0 ELSE args[cur[w]] # None
  BY <1>1 DEF KnowledgeInv, Knows
<1>4. PICK whole \in Prints(in.ep, err[w]) :
        Finish(w, JsonReply(Shown(tx[cur[w]]), parsed[w].clientTx, err[w], whole))
  BY DEF Reply
<1> DEFINE answer == JsonReply(Shown(tx[cur[w]]), parsed[w].clientTx, err[w], whole)
<1>5. answer.clientTx = ClientTransactionId(in, in.form)
  BY <1>3 DEF JsonReply, Read, Parsed
<1>6. Service!Echoes(in, answer.clientTx)
  BY <1>2, <1>5, NumberEchoed
<1>7. answer = Service!JsonReply(Service!Shown(order[cur[w]]), answer.clientTx, err[w], whole)
  <2>1. order[cur[w]] \in Nat /\ tx[cur[w]] = order[cur[w]] % IdRange
    BY <1>1 DEF NumbersInv, TypeOK, Wraps
  <2>2. Shown(tx[cur[w]]) = Shown(order[cur[w]])
    BY <2>1, ShownRemainder
  <2> QED
    BY <2>2, SameReplies, SameWords DEF JsonReply
<1>8. whole \in Service!Prints(in.ep, err[w])
  BY SameReplies
<1>9. answer \in Replies
  <2>1. whole \in BOOLEAN
    BY DEF Prints
  <2>2. tx[cur[w]] \in Nat /\ parsed[w].clientTx \in Nat
    BY <1>1, RangeAssumption DEF NumbersInv, TypeOK
  <2> QED
    BY <1>2, <2>1, <2>2, JsonReplyType
<1> HIDE DEF answer
<1>10. Service!MayAnswer(cur[w], answer)
  <2>1. CASE IsManagement(in)
    BY <1>3, <1>6, <1>7, <1>8, <2>1, SameManagement DEF Service!MayAnswer
  <2>2. CASE ~IsManagement(in)
    <3>1. err[w] # 0 => ~in.ep.hidesErrors
      BY <1>1 DEF HidesError
    <3> QED
      BY <1>2, <1>3, <1>6, <1>7, <1>8, <2>2, <3>1 DEF Service!MayAnswer
  <2> QED
    BY <2>1, <2>2
<1> QED
  BY <1>4, <1>9, <1>10 DEF answer

LEMMA CallPerforms ==
  ASSUME ~SegmentedBodies, NumbersInv, KnowledgeInv, NEW w \in Workers, CallDriver(w)
  PROVE  Service!Perform(cur[w])
<1> DEFINE in == input[cur[w]]
<1>1. pc[w] = "handle" /\ ~IsManagement(in) /\ cur[w] \in Requests
  BY DEF CallDriver, At, NumbersInv, TypeOK
<1>2. in \in Inputs /\ in \in InputType /\ reply[cur[w]] = None /\ order[cur[w]] # 0
  BY <1>1, InputsAssumption, NoneAssumption DEF NumbersInv, TypeOK, OneHandler, Numbered
<1>3. parsed[w] = Read(in) /\ Served(in) /\ args[cur[w]] = None
  BY <1>1 DEF KnowledgeInv, Knows
<1>4. ~in.longQuery /\ Service!HasDevice(in)
  BY <1>1, <1>2, <1>3, CountOfDevices, SameWords DEF Served, ParseResult, Service!HasDevice
<1>5. PICK a \in Arguments(in.ep, Read(in).values) : args' = [args EXCEPT ![cur[w]] = a]
  BY <1>3 DEF CallDriver
<1>6. args'[cur[w]] = a /\ args' = [args EXCEPT ![cur[w]] = args'[cur[w]]]
  BY <1>1, <1>5 DEF NumbersInv, TypeOK
<1>7. a # None
  BY <1>2, ArgumentsAreCalls
<1>8. DOMAIN a = DOMAIN in.ep.params
  BY Zenon DEF Arguments
<1>9. \A i \in DOMAIN in.ep.params :
        /\ a[i] \in Readings(in.ep, Read(in).values, i)
        /\ a[i] \notin {Refused, Crash}
  BY Zenon DEF Arguments
<1>10. \A i \in DOMAIN in.ep.params :
         a[i] \notin {Service!Refused, Service!Crash} /\ Service!Means(in, i, a[i])
  BY <1>2, <1>4, <1>9, ReadingMeans, SameWords DEF Read
<1>11. UNCHANGED <<input, reply, drawn, order>>
  BY DEF CallDriver, txVars
<1> HIDE DEF in
<1> QED
  BY <1>1, <1>2, <1>3, <1>4, <1>6, <1>7, <1>8, <1>10, <1>11, SameManagement
     DEF Service!Perform, in

\* Each step is one of AlpacaService, or changes nothing that a client or a
\* driver sees.
LEMMA StepImplements ==
  ASSUME ~SegmentedBodies, NumbersInv, KnowledgeInv, [Next]_vars
  PROVE  [Service!Next]_(Service!vars)
<1> USE NoneAssumption, NoReplyAssumption
<1>1. ASSUME NEW w \in Workers, NEW r \in Requests, NEW in \in Inputs, Accept(w, r, in)
      PROVE  Service!Next
  <2>1. /\ input[r] = None /\ input' = [input EXCEPT ![r] = in] /\ in # None
        /\ UNCHANGED <<args, reply, drawn, order>>
    BY <1>1 DEF Accept, txVars
  <2>2. input'[r] = in
    BY <2>1 DEF NumbersInv, TypeOK
  <2>3. Service!Submit(r)
    BY <2>1, <2>2 DEF Service!Submit
  <2> QED
    BY <2>3 DEF Service!Next
<1>2. ASSUME NEW w \in Workers, Store(w) PROVE Service!Next
  <2>1. /\ cur[w] \in Requests /\ order[cur[w]] = 0 /\ drawn' = drawn + 1
        /\ order' = [order EXCEPT ![cur[w]] = drawn + 1]
    BY <1>2, NumberGiven
  <2>2. input[cur[w]] # None
    BY <2>1 DEF NumbersInv, OneHandler
  <2>3. UNCHANGED <<input, args, reply>>
    BY <1>2 DEF Store
  <2>4. Service!Number(cur[w])
    BY <2>1, <2>2, <2>3 DEF Service!Number
  <2> QED
    BY <2>1, <2>4 DEF Service!Next
<1>3. ASSUME NEW w \in Workers, CallDriver(w) PROVE Service!Next
  <2>1. cur[w] \in Requests
    BY <1>3 DEF CallDriver, At, NumbersInv, TypeOK
  <2> QED
    BY <1>3, <2>1, CallPerforms DEF Service!Next
<1>4. ASSUME NEW w \in Workers, Ends(w) PROVE Service!Next
  <2>1. PICK answer \in Replies : Finish(w, answer) /\ Service!MayAnswer(cur[w], answer)
    BY <1>4, RefusalAnswers, ReplyAnswers, ErrorReplyType DEF Ends
  <2>2. /\ cur[w] \in Requests /\ pc[w] \in {"parse", "handle", "reply"}
        /\ UNCHANGED <<txVars, input, args>>
    BY <1>4, Endings DEF NumbersInv
  <2>3. reply' = [reply EXCEPT ![cur[w]] = answer] /\ reply'[cur[w]] = answer
    BY <2>1, <2>2 DEF Finish, NumbersInv, TypeOK
  <2>4. order[cur[w]] # 0 /\ reply[cur[w]] = None
    BY <2>2 DEF NumbersInv, Numbered, OneHandler
  <2>5. answer # None
    OBVIOUS
  <2>6. Service!Answer(cur[w])
    BY <2>1, <2>2, <2>3, <2>4, <2>5 DEF Service!Answer, txVars
  <2> QED
    BY <2>2, <2>6 DEF Service!Next
<1>5. ASSUME NEW w \in Workers, Lock(w) \/ Load(w) \/ Parse(w) \/ Describe(w) \/ Abort(w)
      PROVE  UNCHANGED Service!vars
  BY <1>5 DEF Lock, Load, Parse, Describe, Abort, txVars, Service!vars
<1>6. CASE UNCHANGED vars
  BY <1>6 DEF vars, txVars, Service!vars
<1> QED
  BY <1>1, <1>2, <1>3, <1>4, <1>5, <1>6, Steps DEF Continues

\* With bodies that arrive whole, tasks, mutex, counter and heap are invisible:
\* each request is numbered, perhaps performed, and answered, as AlpacaService says.
THEOREM ImplementsAlpacaService == ~SegmentedBodies => (Spec => IsAlpacaService)
<1> SUFFICES ASSUME ~SegmentedBodies PROVE Spec => IsAlpacaService
  OBVIOUS
<1>1. Init => Service!Init
  BY DEF Init, Service!Init
<1>2. NumbersInv /\ KnowledgeInv /\ [Next]_vars => [Service!Next]_(Service!vars)
  BY StepImplements
<1> QED
  BY <1>1, <1>2, Knowledge, PTL DEF Spec, Service!Spec, IsAlpacaService
=============================================================================
