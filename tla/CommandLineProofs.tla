------------------------- MODULE CommandLineProofs -------------------------
(***************************************************************************)
(* Proofs about CommandLine: which command lines are accepted and what     *)
(* they mean, for any number of arguments, whatever they are.  As long as  *)
(* no value looks like a flag, the parser's state is what is written so    *)
(* far (Parsed); a value that does, and that nothing replaces later, stays *)
(* where the check for swallowed values finds it (Stuck).                  *)
(***************************************************************************)
EXTENDS FunctionProofs

-----------------------------------------------------------------------------
(* Command lines: one argument *)

Names == CL!BoolFlags \union CL!StringFlags

\* The next argument is the value of t.
TakesValue(t) == t.kind = "flag" /\ t.name \in CL!StringFlags

\* t gives f, or a value of f.
Gives(t, f) == t.kind \in { "flag", "flag=" } /\ t.name = f

\* What the arguments may be: flags that are defined, with a value if they take
\* one, texts, flags that aren't defined, and "--".
Argument(t) ==
  /\ t.kind \in { "flag", "flag=", "text", "unknown", "end" }
  /\ t.kind = "flag" => t.name \in Names /\ t = CL!Flag(t.name)
  /\ t.kind = "flag=" => t.name \in CL!StringFlags
  /\ t.kind = "text" => t = CL!Text(t.text)
Arguments(T) == \A t \in T : Argument(t)

\* The values that a variable may get, and what the parser may have come to.
Values(T) ==
  BOOLEAN \union T \union { CL!Given(t) : t \in T } \union { CL!Default[f] : f \in Names }
Parsers(T) ==
  [cfg : [Names -> Values(T)], wants : CL!StringFlags \union { "" },
   at : { "flags", "rest", "error" }, args : BOOLEAN]

\* No flag is on and takes a value.
LEMMA FlagKinds ==
  /\ CL!BoolFlags \intersect CL!StringFlags = { }
  /\ "" \notin Names
  /\ \A f \in Names : CL!Flag(f).kind = "flag" /\ CL!Flag(f).name = f
BY DEF Names, CL!BoolFlags, CL!StringFlags, CL!Flag, CL!Token

\* The parser begins with the defaults.
LEMMA ParserTyped ==
  ASSUME NEW T
  PROVE  /\ CL!Parser \in Parsers(T)
         /\ CL!Parser.cfg = CL!Default /\ CL!Parser.wants = "" /\ CL!Parser.at = "flags"
         /\ CL!Parser.args = FALSE
<1>1. CL!Default \in [Names -> Values(T)]
  <2>1. DOMAIN CL!Default = Names
    BY DEF CL!Default, Names, CL!BoolFlags, CL!StringFlags
  <2>2. CL!Default = [f \in DOMAIN CL!Default |-> CL!Default[f]]
    BY DEF CL!Default
  <2>3. \A f \in Names : CL!Default[f] \in Values(T)
    BY DEF Values
  <2> HIDE DEF Names
  <2>4. QED
    BY <2>1, <2>2, <2>3
<1>2. QED
  BY <1>1 DEF CL!Parser, Parsers

\* c with another value for f, and with f on.
Put(c, f, v) == [c EXCEPT ![f] = v]
On(c, f) == [c EXCEPT ![f] = TRUE]

LEMMA PutIs ==
  ASSUME NEW T, NEW c \in [Names -> Values(T)], NEW f \in Names, NEW v \in Values(T)
  PROVE  /\ Put(c, f, v) \in [Names -> Values(T)] /\ Put(c, f, v)[f] = v
         /\ \A g \in Names : g # f => Put(c, f, v)[g] = c[g]
BY DEF Put

LEMMA OnIs ==
  ASSUME NEW T, NEW c \in [Names -> Values(T)], NEW f \in Names
  PROVE  /\ On(c, f) \in [Names -> Values(T)] /\ On(c, f)[f] = TRUE
         /\ \A g \in Names : g # f => On(c, f)[g] = c[g]
BY DEF On, Values

\* How far the parser is, with no argument left over.
State(s, at, wants) == s.at = at /\ s.wants = wants /\ s.args = FALSE

\* Nothing follows an error.
LEMMA ParseFailed ==
  ASSUME NEW T, Arguments(T), NEW s \in Parsers(T), NEW t \in T,
         s.at = "error"
  PROVE  CL!ParseToken(s, t) = s
BY DEF CL!ParseToken

\* Where no flags are looked for, an argument is left over.
LEMMA ParseRest ==
  ASSUME NEW T, Arguments(T), NEW s \in Parsers(T), NEW t \in T,
         s.at = "rest"
  PROVE  CL!ParseToken(s, t) \in Parsers(T) /\ CL!ParseToken(s, t).at = "rest" /\ CL!ParseToken(s, t).args = TRUE
<1>1. PICK r : r = CL!ParseToken(s, t)
  OBVIOUS
<1>2. r = [s EXCEPT !.args = TRUE]
  BY <1>1 DEF CL!ParseToken
<1>3. QED
  BY <1>1, <1>2 DEF Parsers

\* Any argument is the value of a flag that waits for one.
LEMMA ParseValue ==
  ASSUME NEW T, Arguments(T), NEW s \in Parsers(T), NEW t \in T,
         NEW g \in CL!StringFlags, State(s, "flags", g)
  PROVE  /\ CL!ParseToken(s, t) \in Parsers(T) /\ CL!ParseToken(s, t).cfg = Put(s.cfg, g, t)
         /\ State(CL!ParseToken(s, t), "flags", "")
<1>1. PICK r : r = CL!ParseToken(s, t)
  OBVIOUS
<1>2. r = [s EXCEPT !.cfg[g] = t, !.wants = ""]
  BY <1>1, FlagKinds DEF Names, CL!ParseToken, State
<1>3. g \in Names /\ t \in Values(T) /\ s.cfg \in [Names -> Values(T)]
  BY DEF Parsers, Values, Names
<1>4. PICK c \in [Names -> Values(T)] : c = Put(s.cfg, g, t)
  BY <1>3, PutIs
<1>5. r = [s EXCEPT !.cfg = c, !.wants = ""]
  BY <1>2, <1>4, Zenon DEF Put
<1>6. QED
  BY <1>1, <1>4, <1>5 DEF Parsers, State

\* A text ends the flags, and is left over.
LEMMA ParseText ==
  ASSUME NEW T, Arguments(T), NEW s \in Parsers(T), NEW t \in T,
         State(s, "flags", ""), t.kind = "text"
  PROVE  CL!ParseToken(s, t) \in Parsers(T) /\ CL!ParseToken(s, t).at = "rest" /\ CL!ParseToken(s, t).args = TRUE
<1>1. PICK r : r = CL!ParseToken(s, t)
  OBVIOUS
<1>2. r = [s EXCEPT !.at = "rest", !.args = TRUE]
  BY <1>1 DEF CL!ParseToken, State
<1>3. QED
  BY <1>1, <1>2 DEF Parsers, State

\* "--" ends them, and isn't.
LEMMA ParseEnd ==
  ASSUME NEW T, Arguments(T), NEW s \in Parsers(T), NEW t \in T,
         State(s, "flags", ""), t.kind = "end"
  PROVE  /\ CL!ParseToken(s, t) \in Parsers(T) /\ CL!ParseToken(s, t).cfg = s.cfg
         /\ State(CL!ParseToken(s, t), "rest", "")
<1>1. PICK r : r = CL!ParseToken(s, t)
  OBVIOUS
<1>2. r = [s EXCEPT !.at = "rest"]
  BY <1>1 DEF CL!ParseToken, State
<1>3. QED
  BY <1>1, <1>2 DEF Parsers, State

\* A flag with its value in the same argument.
LEMMA ParseBoth ==
  ASSUME NEW T, Arguments(T), NEW s \in Parsers(T), NEW t \in T,
         State(s, "flags", ""), t.kind = "flag="
  PROVE  /\ CL!ParseToken(s, t) \in Parsers(T) /\ CL!ParseToken(s, t).cfg = Put(s.cfg, t.name, CL!Given(t))
         /\ State(CL!ParseToken(s, t), "flags", "")
<1>1. PICK r : r = CL!ParseToken(s, t)
  OBVIOUS
<1>2. PICK v \in Values(T) : v = CL!Given(t)
  BY DEF Values
<1>3. r = [s EXCEPT !.cfg[t.name] = v]
  BY <1>1, <1>2 DEF CL!ParseToken, State
<1>4. t.name \in Names /\ s.cfg \in [Names -> Values(T)]
  BY DEF Parsers, Arguments, Argument, Names
<1>5. PICK c \in [Names -> Values(T)] : c = Put(s.cfg, t.name, v)
  BY <1>4, PutIs
<1>6. r = [s EXCEPT !.cfg = c]
  BY <1>3, <1>5, Zenon DEF Put
<1>7. QED
  BY <1>1, <1>2, <1>5, <1>6 DEF Parsers, State

\* A flag that takes no value.
LEMMA ParseOn ==
  ASSUME NEW T, Arguments(T), NEW s \in Parsers(T), NEW t \in T,
         State(s, "flags", ""), t.kind = "flag", t.name \in CL!BoolFlags
  PROVE  /\ CL!ParseToken(s, t) \in Parsers(T) /\ CL!ParseToken(s, t).cfg = On(s.cfg, t.name)
         /\ State(CL!ParseToken(s, t), "flags", "")
<1>1. PICK r : r = CL!ParseToken(s, t)
  OBVIOUS
<1>2. t.name \notin CL!StringFlags /\ t.kind # "text" /\ t.kind # "end" /\ t.kind # "flag="
  BY FlagKinds
<1>3. r = CL!TurnOn(s, t.name)
  BY <1>1, <1>2 DEF CL!ParseToken, State
<1>4. t.name \in Names /\ s.cfg \in [Names -> Values(T)]
  BY DEF Parsers, Names
<1>5. PICK c \in [Names -> Values(T)] : c = On(s.cfg, t.name)
  BY <1>4, OnIs
<1>6. r = [s EXCEPT !.cfg = c]
  BY <1>3, <1>5, Zenon DEF On, CL!TurnOn
<1>7. QED
  BY <1>1, <1>5, <1>6 DEF Parsers, State

\* A flag that takes one waits for it.
LEMMA ParseTakes ==
  ASSUME NEW T, Arguments(T), NEW s \in Parsers(T), NEW t \in T,
         State(s, "flags", ""), t.kind = "flag", t.name \in CL!StringFlags
  PROVE  /\ CL!ParseToken(s, t) \in Parsers(T) /\ CL!ParseToken(s, t).cfg = s.cfg
         /\ State(CL!ParseToken(s, t), "flags", t.name)
<1>1. PICK r : r = CL!ParseToken(s, t)
  OBVIOUS
<1>2. t.name \notin CL!BoolFlags
  BY FlagKinds
<1>3. r = [s EXCEPT !.wants = t.name]
  BY <1>1, <1>2 DEF CL!ParseToken, State
<1>4. QED
  BY <1>1, <1>3 DEF Parsers, State

\* A flag that isn't defined is an error.
LEMMA ParseUnknown ==
  ASSUME NEW T, Arguments(T), NEW s \in Parsers(T), NEW t \in T,
         State(s, "flags", ""), t.kind = "unknown"
  PROVE  CL!ParseToken(s, t) \in Parsers(T) /\ CL!ParseToken(s, t).at = "error"
<1>1. PICK r : r = CL!ParseToken(s, t)
  OBVIOUS
<1>2. r = [s EXCEPT !.at = "error"]
  BY <1>1 DEF CL!ParseToken, State
<1>3. QED
  BY <1>1, <1>2 DEF Parsers, State

\* Nothing is left over while flags are looked for.
Sane(s) == s.at = "flags" => State(s, "flags", s.wants)

\* So the parser goes on.
LEMMA ParseTyped ==
  ASSUME NEW T, Arguments(T), NEW s \in Parsers(T), Sane(s), NEW t \in T
  PROVE  CL!ParseToken(s, t) \in Parsers(T) /\ Sane(CL!ParseToken(s, t))
<1>1. PICK r : r = CL!ParseToken(s, t)
  OBVIOUS
<1>2. s.at \in { "flags", "rest", "error" } /\ (s.wants = "" \/ s.wants \in CL!StringFlags)
  BY DEF Parsers
<1>3. t.kind \in { "flag", "flag=", "text", "unknown", "end" } /\ (t.kind = "flag" => t.name \in Names)
  BY DEF Arguments, Argument
<1>4. \A w : State(r, "flags", w) => Sane(r)
  BY DEF State, Sane
<1>5. r.at # "flags" => Sane(r)
  BY DEF Sane
<1>6. CASE s.at = "error"
  BY <1>1, <1>6, ParseFailed
<1>7. CASE s.at = "rest"
  BY <1>1, <1>5, <1>7, ParseRest
<1>8. CASE s.at = "flags" /\ s.wants \in CL!StringFlags
  <2>1. State(s, "flags", s.wants)
    BY <1>8 DEF Sane
  <2>2. QED
    BY <1>1, <1>4, <1>8, <2>1, ParseValue
<1>9. CASE s.at = "flags" /\ s.wants = ""
  <2>1. State(s, "flags", "")
    BY <1>9 DEF Sane
  <2>2. CASE t.kind = "text"
    BY <1>1, <1>5, <2>1, <2>2, ParseText
  <2>3. CASE t.kind = "end"
    <3>1. r \in Parsers(T) /\ State(r, "rest", "")
      BY <1>1, <2>1, <2>3, ParseEnd
    <3>2. QED
      BY <1>1, <1>5, <3>1 DEF State
  <2>4. CASE t.kind = "flag="
    BY <1>1, <1>4, <2>1, <2>4, ParseBoth
  <2>5. CASE t.kind = "flag" /\ t.name \in CL!BoolFlags
    BY <1>1, <1>4, <2>1, <2>5, ParseOn
  <2>6. CASE t.kind = "flag" /\ t.name \in CL!StringFlags
    BY <1>1, <1>4, <2>1, <2>6, ParseTakes
  <2>7. CASE t.kind = "unknown"
    BY <1>1, <1>5, <2>1, <2>7, ParseUnknown
  <2>8. QED
    BY <1>3, <2>2, <2>3, <2>4, <2>5, <2>6, <2>7 DEF Names
<1>10. QED
  BY <1>2, <1>6, <1>7, <1>8, <1>9

-----------------------------------------------------------------------------
(* Command lines: what is written *)

\* The value that args[j], a flag that takes one, gives.
ValueAt(args, j) == IF args[j].kind = "flag=" THEN CL!Given(args[j]) ELSE args[j + 1]

\* c is what the first m arguments say, and what follows their last one.
SaysFlag(c, args, m, f) ==
  \/ c[f] = TRUE /\ \E j \in 1 .. m : args[j] = CL!Flag(f)
  \/ c[f] = FALSE /\ \A j \in 1 .. m : args[j] # CL!Flag(f)
SaysValue(c, args, m, f) ==
  \/ c[f] = CL!Default[f] /\ \A j \in 1 .. m : ~Gives(args[j], f)
  \/ \E j \in 1 .. m : /\ Gives(args[j], f) /\ c[f] = ValueAt(args, j)
                       /\ \A i \in j + 1 .. m : ~Gives(args[i], f)
Says(c, args, m) ==
  /\ \A f \in CL!BoolFlags : SaysFlag(c, args, m, f)
  /\ \A f \in CL!StringFlags : SaysValue(c, args, m, f)

\* The values are texts.
TextValues(c) == \A f \in CL!StringFlags : c[f] = CL!Text(c[f].text)

\* The defaults are what no argument says.
LEMMA SaysNothing ==
  ASSUME NEW args
  PROVE  Says(CL!Default, args, 0) /\ TextValues(CL!Default)
<1>1. \A f \in CL!BoolFlags : CL!Default[f] = FALSE
  BY DEF CL!Default, CL!BoolFlags
<1>2. TextValues(CL!Default)
  <2>1. \A x : CL!Text(x).text = x
    BY DEF CL!Text, CL!Token
  <2>2. \A f \in CL!StringFlags : \E x : CL!Default[f] = CL!Text(x)
    <3>1. /\ CL!Default.libc = CL!Text("glibc") /\ CL!Default.packages = CL!Text("")
          /\ CL!Default.output = CL!Text("") /\ CL!Default.image = CL!Text("")
          /\ CL!Default.binaryPath = CL!Text(".")
      BY DEF CL!Default, CL!NoText
    <3>2. QED
      BY <3>1, Zenon DEF CL!StringFlags
  <2>3. QED
    BY <2>1, <2>2 DEF TextValues
<1>3. QED
  BY <1>1, <1>2 DEF Says, SaysFlag, SaysValue

\* A text, "--" or a flag that isn't defined says nothing.
LEMMA SaysSame ==
  ASSUME NEW T, NEW args, NEW c, NEW m \in Nat, Says(c, args, m),
         args[m + 1].kind \notin { "flag", "flag=" }
  PROVE  Says(c, args, m + 1)
<1>1. PICK t : t = args[m + 1]
  OBVIOUS
<1>2. /\ \A f \in CL!BoolFlags : t # CL!Flag(f)
      /\ \A f \in CL!StringFlags : ~Gives(t, f)
  BY <1>1, FlagKinds DEF Gives, Names
<1>3. \A j \in 1 .. m + 1 : j \in 1 .. m \/ j = m + 1
  OBVIOUS
<1>4. ASSUME NEW f \in CL!BoolFlags PROVE SaysFlag(c, args, m + 1, f)
  BY <1>1, <1>2, <1>3 DEF Says, SaysFlag
<1>5. ASSUME NEW f \in CL!StringFlags PROVE SaysValue(c, args, m + 1, f)
  <2>1. CASE c[f] = CL!Default[f] /\ \A j \in 1 .. m : ~Gives(args[j], f)
    BY <1>1, <1>2, <1>3, <2>1 DEF SaysValue
  <2>2. ASSUME NEW j \in 1 .. m, Gives(args[j], f), c[f] = ValueAt(args, j),
               \A i \in j + 1 .. m : ~Gives(args[i], f)
        PROVE  SaysValue(c, args, m + 1, f)
    <3>1. \A i \in j + 1 .. m + 1 : ~Gives(args[i], f)
      BY <1>1, <1>2, <2>2
    <3>2. j \in 1 .. m + 1
      OBVIOUS
    <3>3. QED
      BY <2>2, <3>1, <3>2 DEF SaysValue
  <2>3. QED
    BY <2>1, <2>2 DEF Says, SaysValue
<1>6. QED
  BY <1>4, <1>5 DEF Says

\* A flag that takes no value says that it is on.
LEMMA SaysOn ==
  ASSUME NEW T, NEW args, NEW c \in [Names -> Values(T)], NEW m \in Nat, Says(c, args, m),
         NEW g \in CL!BoolFlags, args[m + 1] = CL!Flag(g)
  PROVE  Says(On(c, g), args, m + 1)
<1>1. PICK t : t = args[m + 1]
  OBVIOUS
<1>2. \A j \in 1 .. m + 1 : j \in 1 .. m \/ j = m + 1
  OBVIOUS
<1>3. PICK d : d = On(c, g)
  OBVIOUS
<1>4. d[g] = TRUE /\ \A f \in Names : f # g => d[f] = c[f]
  <2>1. g \in Names
    BY DEF Names
  <2>2. On(c, g)[g] = TRUE /\ \A f \in Names : f # g => On(c, g)[f] = c[f]
    BY <2>1, OnIs, Zenon
  <2>3. QED
    BY <1>3, <2>2, Zenon
<1>5. \A f \in Names : f # g => CL!Flag(f) # t
  BY <1>1, FlagKinds DEF Names
<1>6. ASSUME NEW f \in CL!BoolFlags PROVE SaysFlag(d, args, m + 1, f)
  <2>1. CASE f = g
    <3>1. m + 1 \in 1 .. m + 1
      OBVIOUS
    <3>2. QED
      BY <1>4, <2>1, <3>1 DEF SaysFlag
  <2>2. CASE f # g
    <3>1. d[f] = c[f] /\ CL!Flag(f) # t /\ SaysFlag(c, args, m, f)
      BY <1>4, <1>5, <2>2 DEF Names, Says
    <3>2. QED
      BY <1>1, <1>2, <3>1 DEF SaysFlag
  <2>3. QED
    BY <2>1, <2>2
<1>7. ASSUME NEW f \in CL!StringFlags PROVE SaysValue(d, args, m + 1, f)
  <2>1. f # g /\ f \in Names
    BY FlagKinds DEF Names
  <2>2. d[f] = c[f] /\ SaysValue(c, args, m, f)
    BY <1>4, <2>1 DEF Says
  <2>3. ~Gives(t, f)
    <3>1. t.name = g
      BY <1>1, FlagKinds DEF Names
    <3>2. QED
      BY <2>1, <3>1 DEF Gives
  <2>4. CASE c[f] = CL!Default[f] /\ \A j \in 1 .. m : ~Gives(args[j], f)
    BY <1>1, <1>2, <2>2, <2>3, <2>4 DEF SaysValue
  <2>5. ASSUME NEW j \in 1 .. m, Gives(args[j], f), c[f] = ValueAt(args, j),
               \A i \in j + 1 .. m : ~Gives(args[i], f)
        PROVE  SaysValue(d, args, m + 1, f)
    <3>1. \A i \in j + 1 .. m + 1 : ~Gives(args[i], f)
      BY <1>1, <2>3, <2>5
    <3>2. j \in 1 .. m + 1
      OBVIOUS
    <3>3. QED
      BY <2>2, <2>5, <3>1, <3>2 DEF SaysValue
  <2>6. QED
    BY <2>2, <2>4, <2>5 DEF SaysValue
<1>8. QED
  BY <1>3, <1>6, <1>7 DEF Says

\* A flag that takes a value says what it is, whether the value is in the same
\* argument or the next, which then says nothing else.
LEMMA SaysIts ==
  ASSUME NEW T, NEW args, NEW c \in [Names -> Values(T)], NEW m \in Nat, Says(c, args, m),
         NEW g \in CL!StringFlags, Gives(args[m + 1], g), NEW v \in Values(T), v = ValueAt(args, m + 1),
         NEW n \in { m + 1, m + 2 }, n = m + 2 => args[n].kind \notin { "flag", "flag=" }
  PROVE  Says(Put(c, g, v), args, n)
<1>1. PICK t : t = args[m + 1]
  OBVIOUS
<1>2. /\ \A f \in CL!BoolFlags : t # CL!Flag(f) /\ (n = m + 2 => args[n] # CL!Flag(f))
      /\ \A f \in CL!StringFlags : /\ f # g => ~Gives(t, f)
                                   /\ n = m + 2 => ~Gives(args[n], f)
  <2>1. PICK u : u = args[n]
    OBVIOUS
  <2>2. n = m + 2 => u.kind \notin { "flag", "flag=" }
    BY <2>1
  <2>3. t.name = g /\ \A f \in CL!StringFlags : f # g => ~Gives(t, f)
    BY <1>1 DEF Gives
  <2>4. \A f \in CL!BoolFlags : f # g /\ CL!Flag(f).name = f /\ CL!Flag(f).kind = "flag"
    BY FlagKinds DEF Names
  <2>5. \A f \in CL!BoolFlags : t # CL!Flag(f) /\ (n = m + 2 => u # CL!Flag(f))
    BY <2>2, <2>3, <2>4
  <2>6. \A f \in CL!StringFlags : n = m + 2 => ~Gives(u, f)
    BY <2>2 DEF Gives
  <2>7. QED
    BY <2>1, <2>3, <2>5, <2>6
<1>3. \A j \in 1 .. n : j \in 1 .. m \/ j = m + 1 \/ (j = n /\ n = m + 2)
  OBVIOUS
<1>4. PICK d : d = Put(c, g, v)
  OBVIOUS
<1>5. d[g] = v /\ \A f \in Names : f # g => d[f] = c[f]
  BY <1>4, PutIs DEF Names
<1>6. ASSUME NEW f \in CL!BoolFlags PROVE SaysFlag(d, args, n, f)
  <2>1. f # g /\ f \in Names
    BY FlagKinds DEF Names
  <2>2. d[f] = c[f] /\ SaysFlag(c, args, m, f)
    BY <1>5, <2>1 DEF Says
  <2>3. \A j \in 1 .. n : args[j] = CL!Flag(f) => j \in 1 .. m
    BY <1>1, <1>2, <1>3
  <2>4. \A j \in 1 .. m : j \in 1 .. n
    OBVIOUS
  <2>5. QED
    BY <2>2, <2>3, <2>4 DEF SaysFlag
<1>7. ASSUME NEW f \in CL!StringFlags PROVE SaysValue(d, args, n, f)
  <2>1. CASE f = g
    <3>1. m + 1 \in 1 .. n /\ \A i \in (m + 1) + 1 .. n : i = n /\ n = m + 2
      OBVIOUS
    <3>2. \A i \in (m + 1) + 1 .. n : ~Gives(args[i], f)
      BY <1>2, <3>1
    <3>3. QED
      BY <1>5, <2>1, <3>1, <3>2 DEF SaysValue
  <2>2. CASE f # g
    <3>1. d[f] = c[f] /\ SaysValue(c, args, m, f)
      BY <1>5, <2>2 DEF Says, Names
    <3>2. \A j \in 1 .. n : Gives(args[j], f) => j \in 1 .. m
      BY <1>1, <1>2, <1>3, <2>2
    <3>3. CASE c[f] = CL!Default[f] /\ \A j \in 1 .. m : ~Gives(args[j], f)
      BY <3>1, <3>2, <3>3 DEF SaysValue
    <3>4. ASSUME NEW j \in 1 .. m, Gives(args[j], f), c[f] = ValueAt(args, j),
                 \A i \in j + 1 .. m : ~Gives(args[i], f)
          PROVE  SaysValue(d, args, n, f)
      <4>1. ASSUME NEW i \in j + 1 .. n PROVE ~Gives(args[i], f)
        <5>1. i \in 1 .. n /\ (i \in 1 .. m => i \in j + 1 .. m)
          OBVIOUS
        <5>2. QED
          BY <3>2, <3>4, <5>1
      <4>2. j \in 1 .. n
        OBVIOUS
      <4>3. QED
        BY <3>1, <3>4, <4>1, <4>2 DEF SaysValue
    <3>5. QED
      BY <3>1, <3>3, <3>4 DEF SaysValue
  <2>3. QED
    BY <2>1, <2>2
<1>8. QED
  BY <1>4, <1>6, <1>7 DEF Says

\* What all arguments say is what is written.
LEMMA SaysWritten ==
  ASSUME NEW T, NEW args \in Seq(T), NEW c \in [Names -> Values(T)],
         Says(c, args, Len(args))
  PROVE  c = CL!Written(args)
<1>1. PICK n \in Nat : n = Len(args) /\ DOMAIN args = 1 .. n
  OBVIOUS
<1>2. ASSUME NEW f \in CL!BoolFlags PROVE c[f] = CL!Written(args)[f]
  <2>1. CL!Written(args)[f] = \E k \in DOMAIN args : args[k] = CL!Flag(f)
    BY Zenon DEF CL!Written
  <2>2. SaysFlag(c, args, n, f)
    BY <1>1 DEF Says
  <2>3. QED
    BY <1>1, <2>1, <2>2 DEF SaysFlag
<1>3. ASSUME NEW f \in CL!StringFlags PROVE c[f] = CL!Written(args)[f]
  <2> DEFINE Here == { k \in DOMAIN args : args[k].kind \in { "flag", "flag=" } /\ args[k].name = f }
             Latest == CHOOSE k \in Here : \A j \in Here : j <= k
  <2>1. f \notin CL!BoolFlags /\ f \in CL!BoolFlags \union CL!StringFlags
    BY FlagKinds
  <2>2. CL!Written(args)[f] = IF Here = { } THEN CL!Default[f] ELSE ValueAt(args, Latest)
    BY <2>1, Zenon DEF CL!Written, ValueAt
  <2>3. PICK here : here = Here
    OBVIOUS
  <2>4. PICK last : /\ CL!Written(args)[f] = IF here = { } THEN CL!Default[f] ELSE ValueAt(args, last)
                    /\ last = CHOOSE k \in here : \A j \in here : j <= k
    BY <2>2, <2>3, Zenon
  <2>5. here = { k \in 1 .. n : Gives(args[k], f) }
    BY <1>1, <2>3 DEF Gives
  <2> HIDE DEF Here, Latest
  <2>6. SaysValue(c, args, n, f)
    BY <1>1 DEF Says
  <2>7. CASE c[f] = CL!Default[f] /\ \A j \in 1 .. n : ~Gives(args[j], f)
    BY <2>4, <2>5, <2>7
  <2>8. ASSUME NEW j \in 1 .. n, Gives(args[j], f), c[f] = ValueAt(args, j),
               \A i \in j + 1 .. n : ~Gives(args[i], f)
        PROVE  c[f] = CL!Written(args)[f]
    <3>1. j \in here
      BY <2>5, <2>8
    <3>2. ASSUME NEW i \in here PROVE i <= j /\ i \in Nat
      <4>1. i \in 1 .. n /\ i \notin j + 1 .. n
        BY <2>5, <2>8
      <4>2. QED
        BY <4>1
    <3>3. last \in here /\ \A i \in here : i <= last
      BY <2>4, <3>1, <3>2, Zenon
    <3>4. last = j
      BY <3>1, <3>2, <3>3
    <3>5. QED
      BY <2>4, <2>8, <3>1, <3>4
  <2>9. QED
    BY <2>6, <2>7, <2>8 DEF SaysValue
<1>4. \A f \in Names : c[f] = CL!Written(args)[f]
  BY <1>2, <1>3 DEF Names
<1>5. CL!Written(args) = [f \in Names |-> CL!Written(args)[f]]
  <2> DEFINE Here(f) == { k \in DOMAIN args : args[k].kind \in { "flag", "flag=" } /\ args[k].name = f }
             Latest(f) == CHOOSE k \in Here(f) : \A j \in Here(f) : j <= k
             W(f) == IF f \in CL!BoolFlags THEN \E k \in DOMAIN args : args[k] = CL!Flag(f)
                     ELSE IF Here(f) = { } THEN CL!Default[f]
                     ELSE IF args[Latest(f)].kind = "flag=" THEN CL!Given(args[Latest(f)])
                     ELSE args[Latest(f) + 1]
  <2>1. CL!Written(args) = [f \in Names |-> W(f)]
    BY Zenon DEF CL!Written, Names
  <2> HIDE DEF W
  <2>2. QED
    BY <2>1
<1>6. QED
  BY <1>4, <1>5

-----------------------------------------------------------------------------
(* Command lines: one argument after another, no value looks like a flag *)

\* args[j] is in the place of a value.
IsValue(args, j) == j > 1 /\ TakesValue(args[j - 1])

\* t has a value in it that looks like a flag.
Dashed(t) == t.kind = "flag=" /\ t.text = "-"

\* No value looks like a flag.
CleanAt(args, j) == (IsValue(args, j) => args[j].kind = "text") /\ ~Dashed(args[j])
Clean(args, k)   == \A j \in 1 .. k : CleanAt(args, j)

\* All texts are values, no value looks like a flag, and the rest are flags that
\* are defined.
Plain(args, k) ==
  \A j \in 1 .. k : /\ args[j].kind = "text" <=> IsValue(args, j)
                    /\ args[j].kind # "unknown" /\ args[j].kind # "end"
                    /\ ~Dashed(args[j])

\* There is a text that isn't a value, or something after "--".
Stray(args, k) ==
  \E j \in 1 .. k : \/ args[j].kind = "text" /\ ~IsValue(args, j)
                    \/ args[j].kind = "end" /\ j < k

\* The parser still looks for flags, with or without one that waits for its
\* value; it has seen "--" just now; it has left arguments over; or it has failed.
Looking(s, args, k) ==
  /\ State(s, "flags", "")
  /\ Plain(args, k) /\ ~IsValue(args, k + 1) /\ Says(s.cfg, args, k) /\ TextValues(s.cfg)
Waiting(s, args, k) ==
  /\ k # 0 /\ TakesValue(args[k]) /\ State(s, "flags", args[k].name)
  /\ Plain(args, k)
  /\ Says(s.cfg, args, k - 1) /\ TextValues(s.cfg)
Ended(s, args, k) ==
  /\ k # 0 /\ State(s, "rest", "")
  /\ Plain(args, k - 1) /\ args[k].kind = "end" /\ ~IsValue(args, k)
  /\ Says(s.cfg, args, k) /\ TextValues(s.cfg)
Left(s, args, k)   == s.at = "rest" /\ s.args = TRUE /\ Stray(args, k)
Failed(s, args, k) == s.at = "error" /\ \E j \in 1 .. k : args[j].kind = "unknown"

Parsed(s, args, k) ==
  Looking(s, args, k) \/ Waiting(s, args, k) \/ Ended(s, args, k) \/ Left(s, args, k) \/ Failed(s, args, k)

\* One more argument that is no text, or that is a value, is as plain.
LEMMA PlainNext ==
  ASSUME NEW args, NEW m \in Nat, Plain(args, m), args[m + 1].kind = "text" <=> IsValue(args, m + 1),
         args[m + 1].kind # "unknown", args[m + 1].kind # "end", ~Dashed(args[m + 1])
  PROVE  Plain(args, m + 1)
<1>1. \A j \in 1 .. m + 1 : j \in 1 .. m \/ j = m + 1
  OBVIOUS
<1>2. QED
  BY <1>1 DEF Plain

\* A text is put among texts.
LEMMA TextNext ==
  ASSUME NEW T, NEW c \in [Names -> Values(T)], TextValues(c), NEW g \in CL!StringFlags,
         NEW t \in Values(T), t.kind = "text", t = CL!Text(t.text)
  PROVE  TextValues(Put(c, g, t))
<1>1. PICK d : d = Put(c, g, t)
  OBVIOUS
<1>2. d[g] = t /\ \A f \in Names : f # g => d[f] = c[f]
  BY <1>1, PutIs DEF Names
<1>3. QED
  BY <1>1, <1>2 DEF TextValues, Names

\* A flag is put on among texts.
LEMMA OnNext ==
  ASSUME NEW T, NEW c \in [Names -> Values(T)], TextValues(c), NEW g \in CL!BoolFlags
  PROVE  TextValues(On(c, g))
<1>1. g \in Names /\ \A f \in CL!StringFlags : f # g /\ f \in Names
  BY FlagKinds DEF Names
<1>2. PICK d : d = On(c, g)
  OBVIOUS
<1>3. On(c, g)[g] = TRUE /\ \A f \in Names : f # g => On(c, g)[f] = c[f]
  <2>1. g \in Names
    BY DEF Names
  <2>2. QED
    BY <2>1, OnIs, Zenon
<1>4. \A f \in CL!StringFlags : d[f] = c[f]
  BY <1>1, <1>2, <1>3, Zenon
<1>5. QED
  BY <1>2, <1>4 DEF TextValues

\* An argument where a flag is looked for.
LEMMA LookingNext ==
  ASSUME NEW T, Arguments(T), NEW args, NEW m \in Nat, NEW t \in T, args[m + 1] = t,
         NEW s \in Parsers(T), Looking(s, args, m), ~Dashed(t), NEW r, r = CL!ParseToken(s, t)
  PROVE  Parsed(r, args, m + 1)
<1>1. /\ State(s, "flags", "")
      /\ Plain(args, m) /\ ~IsValue(args, m + 1) /\ Says(s.cfg, args, m) /\ TextValues(s.cfg)
      /\ s.cfg \in [Names -> Values(T)]
  BY DEF Looking, Parsers
<1>2. m + 1 \in 1 .. m + 1 /\ (m + 1) - 1 = m /\ m + 1 # 0
  OBVIOUS
<1>3. IsValue(args, (m + 1) + 1) <=> TakesValue(t)
  <2>1. (m + 1) + 1 > 1 /\ ((m + 1) + 1) - 1 = m + 1
    OBVIOUS
  <2>2. QED
    BY <2>1 DEF IsValue
<1>4. Argument(t)
  BY DEF Arguments
<1>5. CASE t.kind = "text"
  <2>1. r.at = "rest" /\ r.args = TRUE
    BY <1>1, <1>5, ParseText
  <2>2. Stray(args, m + 1)
    BY <1>1, <1>2, <1>5 DEF Stray
  <2>3. QED
    BY <2>1, <2>2 DEF Parsed, Left
<1>6. CASE t.kind = "end"
  <2>1. r.cfg = s.cfg /\ State(r, "rest", "")
    BY <1>1, <1>6, ParseEnd
  <2>2. Says(s.cfg, args, m + 1)
    BY <1>1, <1>6, SaysSame
  <2>3. QED
    BY <1>1, <1>2, <1>6, <2>1, <2>2 DEF Parsed, Ended
<1>7. CASE t.kind = "flag="
  <2>1. PICK v \in Values(T) : v = CL!Given(t)
    BY DEF Values
  <2>2. r.cfg = Put(s.cfg, t.name, v) /\ State(r, "flags", "")
    BY <1>1, <1>7, <2>1, ParseBoth
  <2>3. t.name \in CL!StringFlags
    BY <1>4, <1>7 DEF Argument
  <2>4. Says(r.cfg, args, m + 1)
    <3>1. Gives(t, t.name) /\ v = ValueAt(args, m + 1)
      BY <1>7, <2>1 DEF Gives, ValueAt
    <3>2. m + 1 \in { m + 1, m + 2 } /\ m + 1 # m + 2
      OBVIOUS
    <3>3. QED
      BY <1>1, <2>2, <2>3, <3>1, <3>2, SaysIts
  <2>5. v.kind = "text" /\ v = CL!Text(v.text)
    BY <1>7, <2>1 DEF CL!Given, CL!Text, CL!Token, Dashed
  <2>6. TextValues(r.cfg)
    BY <1>1, <2>2, <2>3, <2>5, TextNext
  <2>7. Plain(args, m + 1)
    BY <1>1, <1>7, PlainNext
  <2>8. ~TakesValue(t)
    BY <1>7 DEF TakesValue
  <2>9. QED
    BY <1>1, <1>3, <2>2, <2>4, <2>6, <2>7, <2>8 DEF Parsed, Looking
<1>8. CASE t.kind = "flag" /\ t.name \in CL!BoolFlags
  <2>1. r.cfg = On(s.cfg, t.name) /\ State(r, "flags", "")
    BY <1>1, <1>8, ParseOn
  <2>2. t = CL!Flag(t.name)
    BY <1>4, <1>8 DEF Argument
  <2>3. Says(r.cfg, args, m + 1)
    BY <1>1, <1>8, <2>1, <2>2, SaysOn
  <2>4. TextValues(r.cfg)
    <3>1. TextValues(On(s.cfg, t.name))
      BY <1>1, <1>8, OnNext, Zenon
    <3>2. QED
      BY <2>1, <3>1
  <2>5. Plain(args, m + 1)
    BY <1>1, <1>8, PlainNext
  <2>6. ~TakesValue(t)
    BY <1>8, FlagKinds DEF TakesValue
  <2>7. QED
    BY <1>1, <1>3, <2>1, <2>3, <2>4, <2>5, <2>6 DEF Parsed, Looking
<1>9. CASE t.kind = "flag" /\ t.name \in CL!StringFlags
  <2>1. r.cfg = s.cfg /\ State(r, "flags", t.name)
    BY <1>1, <1>9, ParseTakes
  <2>2. TakesValue(t)
    BY <1>9 DEF TakesValue
  <2>3. Plain(args, m + 1)
    BY <1>1, <1>9, PlainNext
  <2>4. QED
    BY <1>1, <1>2, <2>1, <2>2, <2>3 DEF Parsed, Waiting
<1>10. CASE t.kind = "unknown"
  <2>1. r.at = "error"
    BY <1>1, <1>10, ParseUnknown
  <2>2. QED
    BY <1>2, <1>10, <2>1 DEF Parsed, Failed
<1>11. QED
  BY <1>4, <1>5, <1>6, <1>7, <1>8, <1>9, <1>10 DEF Argument, Names

\* A text where a value is waited for.
LEMMA WaitingNext ==
  ASSUME NEW T, Arguments(T), NEW args, NEW m \in Nat, NEW t \in T, args[m + 1] = t,
         NEW s \in Parsers(T), Waiting(s, args, m), t.kind = "text",
         NEW r, r = CL!ParseToken(s, t)
  PROVE  Parsed(r, args, m + 1)
<1>1. PICK g : g = args[m].name
  OBVIOUS
<1>2. /\ m # 0 /\ TakesValue(args[m]) /\ State(s, "flags", g)
      /\ Plain(args, m) /\ Says(s.cfg, args, m - 1) /\ TextValues(s.cfg)
      /\ s.cfg \in [Names -> Values(T)]
  BY <1>1 DEF Waiting, Parsers
<1>3. g \in CL!StringFlags /\ Gives(args[m], g) /\ t = ValueAt(args, m) /\ t \in Values(T)
  BY <1>1, <1>2 DEF TakesValue, Gives, ValueAt, Values
<1>4. r.cfg = Put(s.cfg, g, t) /\ State(r, "flags", "")
  <2>1. g \in CL!StringFlags /\ State(s, "flags", g)
    BY <1>2, <1>3, Zenon
  <2>2. CL!ParseToken(s, t).cfg = Put(s.cfg, g, t) /\ State(CL!ParseToken(s, t), "flags", "")
    BY <2>1, ParseValue, Zenon
  <2>3. QED
    BY <2>2, Zenon
<1>5. m - 1 \in Nat /\ (m - 1) + 1 = m /\ (m - 1) + 2 = m + 1 /\ m + 1 > 1 /\ (m + 1) - 1 = m
  <2>1. m # 0
    BY <1>2, Zenon
  <2>2. QED
    BY <2>1
<1>6. Says(r.cfg, args, m + 1)
  <2>1. m + 1 \in { (m - 1) + 1, (m - 1) + 2 } /\ args[m + 1].kind \notin { "flag", "flag=" }
    BY <1>5
  <2>2. Gives(args[(m - 1) + 1], g) /\ t = ValueAt(args, (m - 1) + 1)
    BY <1>3, <1>5
  <2>3. QED
    BY <1>2, <1>3, <1>4, <1>5, <2>1, <2>2, SaysIts
<1>7. TextValues(r.cfg)
  <2>1. t = CL!Text(t.text)
    BY DEF Arguments, Argument
  <2>2. QED
    BY <1>2, <1>3, <1>4, <2>1, TextNext
<1>8. Plain(args, m + 1)
  <2>1. IsValue(args, m + 1)
    BY <1>2, <1>5, Zenon DEF IsValue
  <2>2. ~Dashed(t)
    BY DEF Dashed
  <2>3. QED
    BY <1>2, <2>1, <2>2, PlainNext
<1>9. ~IsValue(args, (m + 1) + 1)
  <2>1. ((m + 1) + 1) - 1 = m + 1 /\ ~TakesValue(t)
    BY DEF TakesValue
  <2>2. QED
    BY <2>1 DEF IsValue
<1>10. QED
  BY <1>4, <1>6, <1>7, <1>8, <1>9 DEF Parsed, Looking

\* One more argument.
LEMMA ParsedNext ==
  ASSUME NEW T, Arguments(T), NEW args, NEW m \in Nat, NEW t \in T, args[m + 1] = t,
         NEW s \in Parsers(T), Parsed(s, args, m), Clean(args, m + 1),
         NEW r, r = CL!ParseToken(s, t)
  PROVE  Parsed(r, args, m + 1)
<1>1. \A j \in 1 .. m : j \in 1 .. m + 1 /\ j < m + 1
  OBVIOUS
<1>2. CASE Looking(s, args, m)
  <2>1. m + 1 \in 1 .. m + 1
    OBVIOUS
  <2>2. ~Dashed(t)
    BY <2>1 DEF Clean, CleanAt
  <2>3. QED
    BY <1>2, <2>2, LookingNext
<1>3. CASE Waiting(s, args, m)
  <2>1. IsValue(args, m + 1)
    <3>1. m # 0 /\ TakesValue(args[m])
      BY <1>3 DEF Waiting
    <3>2. m + 1 > 1 /\ (m + 1) - 1 = m
      BY <3>1
    <3>3. QED
      BY <3>1, <3>2 DEF IsValue
  <2>2. t.kind = "text"
    <3>1. m + 1 \in 1 .. m + 1
      OBVIOUS
    <3>2. QED
      BY <2>1, <3>1 DEF Clean, CleanAt
  <2>3. QED
    BY <1>3, <2>2, WaitingNext
<1>4. CASE Ended(s, args, m)
  <2>1. s.at = "rest" /\ m # 0 /\ args[m].kind = "end"
    BY <1>4 DEF Ended, State
  <2>2. r.at = "rest" /\ r.args = TRUE
    BY <2>1, ParseRest
  <2>3. m \in 1 .. m + 1 /\ m < m + 1
    BY <2>1
  <2>4. QED
    BY <2>1, <2>2, <2>3 DEF Parsed, Left, Stray
<1>5. CASE Left(s, args, m)
  <2>1. r.at = "rest" /\ r.args = TRUE
    BY <1>5, ParseRest DEF Left
  <2>2. Stray(args, m + 1)
    BY <1>1, <1>5 DEF Left, Stray
  <2>3. QED
    BY <2>1, <2>2 DEF Parsed, Left
<1>6. CASE Failed(s, args, m)
  <2>1. r = s /\ s.at = "error"
    BY <1>6, ParseFailed DEF Failed
  <2>2. QED
    BY <1>1, <1>6, <2>1 DEF Parsed, Failed
<1>7. QED
  BY <1>2, <1>3, <1>4, <1>5, <1>6 DEF Parsed

-----------------------------------------------------------------------------
(* Command lines: all arguments *)

ParseArgument(s, t) == CL!ParseToken(s, t)
P == INSTANCE FoldProofs WITH Step <- ParseArgument, Base <- CL!Parser

\* The parser after the first k arguments.
LEMMA ParsersAre ==
  ASSUME NEW T, Arguments(T), NEW args, NEW n \in Nat, \A j \in 1 .. n : args[j] \in T
  PROVE  /\ \A k \in 0 .. n : P!Folded(args, k) \in Parsers(T) /\ Sane(P!Folded(args, k))
         /\ \A k \in 1 .. n : P!Folded(args, k) = CL!ParseToken(P!Folded(args, k - 1), args[k])
<1> DEFINE G == { k \in Nat : P!Folded(args, k) \in Parsers(T) /\ Sane(P!Folded(args, k)) }
<1>1. 0 \in G
  <2>1. CL!Parser \in Parsers(T) /\ Sane(CL!Parser)
    BY ParserTyped DEF Sane, State
  <2>2. QED
    BY <2>1, P!FoldEmpty
<1>2. ASSUME NEW k \in 1 .. n PROVE P!Folded(args, k) = CL!ParseToken(P!Folded(args, k - 1), args[k])
  <2>1. k - 1 \in Nat /\ k = (k - 1) + 1
    OBVIOUS
  <2>2. P!Folded(args, k) = ParseArgument(P!Folded(args, k - 1), args[k])
    BY <2>1, P!FoldNext
  <2>3. QED
    BY <2>2, Zenon DEF ParseArgument
<1>3. ASSUME NEW k \in 1 .. n, k - 1 \in G PROVE k \in G
  <2>1. PICK s \in Parsers(T) : s = P!Folded(args, k - 1) /\ Sane(s)
    BY <1>3
  <2>2. PICK t \in T : t = args[k]
    OBVIOUS
  <2>3. CL!ParseToken(s, t) \in Parsers(T) /\ Sane(CL!ParseToken(s, t))
    BY <2>1, ParseTyped
  <2>4. QED
    BY <1>2, <2>1, <2>2, <2>3
<1>4. \A k \in 0 .. n : k \in G
  <2> HIDE DEF G
  <2>1. \A k \in 1 .. n : k - 1 \in G => k \in G
    BY <1>3
  <2>2. QED
    BY <1>1, <2>1, N!UpTo
<1>5. QED
  BY <1>2, <1>4

\* It is as it should be while no value looks like a flag.
LEMMA ParsedUpTo ==
  ASSUME NEW T, Arguments(T), NEW args, NEW n \in Nat, \A j \in 1 .. n : args[j] \in T, Clean(args, n)
  PROVE  Parsed(P!Folded(args, n), args, n)
<1> DEFINE G == { k \in Nat : Parsed(P!Folded(args, k), args, k) }
<1>1. 0 \in G
  <2>1. State(CL!Parser, "flags", "") /\ CL!Parser.cfg = CL!Default
    BY ParserTyped DEF State
  <2>2. Plain(args, 0) /\ ~IsValue(args, 0 + 1)
    BY DEF Plain, IsValue
  <2>3. Looking(CL!Parser, args, 0)
    BY <2>1, <2>2, SaysNothing DEF Looking
  <2>4. QED
    BY <2>3, P!FoldEmpty DEF Parsed
<1>2. ASSUME NEW k \in 1 .. n, k - 1 \in G PROVE k \in G
  <2>1. PICK m \in Nat : m = k - 1 /\ k = m + 1
    <3>1. k - 1 \in Nat /\ k = (k - 1) + 1
      OBVIOUS
    <3>2. QED
      BY <3>1
  <2>2. PICK s \in Parsers(T) : s = P!Folded(args, m)
    <3>1. m \in 0 .. n
      BY <2>1
    <3>2. QED
      BY <3>1, ParsersAre
  <2>3. P!Folded(args, k) = CL!ParseToken(s, args[k])
    BY <2>1, <2>2, ParsersAre
  <2>4. PICK t \in T : t = args[k]
    OBVIOUS
  <2>5. Clean(args, m + 1)
    <3>1. \A j \in 1 .. m + 1 : j \in 1 .. n
      BY <2>1
    <3>2. QED
      BY <3>1 DEF Clean
  <2>6. Parsed(s, args, m) /\ args[m + 1] = t
    BY <1>2, <2>1, <2>2, <2>4
  <2>7. Parsed(CL!ParseToken(s, t), args, m + 1)
    BY <2>5, <2>6, ParsedNext
  <2>8. k \in Nat
    BY <2>1
  <2>9. QED
    BY <2>1, <2>3, <2>4, <2>7, <2>8
<1>3. n \in G
  <2> HIDE DEF G
  <2>1. \A k \in 1 .. n : k - 1 \in G => k \in G
    BY <1>2
  <2>2. QED
    BY <1>1, <2>1, N!UpTo
<1>4. QED
  BY <1>3

\* WellFormed, in the terms of these proofs.
LEMMA WellFormedIs ==
  ASSUME NEW args, NEW n \in Nat, DOMAIN args = 1 .. n, n = Len(args)
  PROVE  CL!WellFormed(args) <=>
           \A k \in 1 .. n : /\ args[k].kind = "text" <=> IsValue(args, k)
                             /\ TakesValue(args[k]) => k < n
                             /\ args[k].kind # "unknown"
                             /\ ~Dashed(args[k])
                             /\ args[k].kind = "end" => k = n
BY Zenon DEF CL!WellFormed, IsValue, TakesValue, Dashed

\* Where no value looks like a flag, a command line is accepted by
\* the parser just if it is well-formed, and then means what is written.
LEMMA CleanParsed ==
  ASSUME NEW T, Arguments(T), NEW args \in Seq(T), Clean(args, Len(args)),
         NEW s, s = P!Folded(args, Len(args))
  PROVE  /\ CL!WellFormed(args) <=> s.at # "error" /\ s.wants = "" /\ ~s.args
         /\ CL!WellFormed(args) => /\ s.cfg = CL!Written(args)
                                   /\ Says(s.cfg, args, Len(args)) /\ TextValues(s.cfg)
<1>1. PICK n \in Nat : n = Len(args) /\ DOMAIN args = 1 .. n /\ \A j \in 1 .. n : args[j] \in T
  OBVIOUS
<1>2. Parsed(s, args, n) /\ s \in Parsers(T)
  <2>1. n \in 0 .. n
    OBVIOUS
  <2>2. QED
    BY <1>1, <2>1, ParsedUpTo, ParsersAre
<1>3. s.cfg \in [Names -> Values(T)]
  BY <1>2 DEF Parsers
<1>4. Says(s.cfg, args, n) => s.cfg = CL!Written(args)
  BY <1>1, <1>3, SaysWritten
<1>5. CASE Looking(s, args, n)
  <2>1. State(s, "flags", "") /\ Plain(args, n) /\ ~IsValue(args, n + 1) /\ Says(s.cfg, args, n) /\ TextValues(s.cfg)
    BY <1>5 DEF Looking
  <2>2. s.at # "error" /\ s.wants = "" /\ ~s.args
    BY <2>1 DEF State
  <2>3. ASSUME NEW k \in 1 .. n, TakesValue(args[k]) PROVE k < n
    <3>1. k # n
      <4>1. n + 1 > 1 /\ (n + 1) - 1 = n
        OBVIOUS
      <4>2. TakesValue(args[n]) => IsValue(args, n + 1)
        BY <4>1, Zenon DEF IsValue
      <4>3. QED
        BY <2>1, <2>3, <4>2
    <3>2. QED
      BY <3>1
  <2>4. CL!WellFormed(args)
    BY <1>1, <2>1, <2>3, WellFormedIs DEF Plain
  <2>5. QED
    BY <1>1, <1>4, <2>1, <2>2, <2>4
<1>6. CASE Waiting(s, args, n)
  <2>1. n # 0 /\ TakesValue(args[n]) /\ State(s, "flags", args[n].name)
    BY <1>6 DEF Waiting
  <2>2. s.wants # ""
    BY <2>1, FlagKinds DEF State, TakesValue, Names
  <2>3. n \in 1 .. n /\ ~(n < n)
    BY <2>1
  <2>4. ~CL!WellFormed(args)
    BY <1>1, <2>1, <2>3, WellFormedIs
  <2>5. QED
    BY <2>2, <2>4
<1>7. CASE Ended(s, args, n)
  <2>1. /\ n # 0 /\ State(s, "rest", "") /\ Plain(args, n - 1)
        /\ args[n].kind = "end" /\ ~IsValue(args, n) /\ Says(s.cfg, args, n) /\ TextValues(s.cfg)
    BY <1>7 DEF Ended
  <2>2. s.at # "error" /\ s.wants = "" /\ ~s.args
    BY <2>1 DEF State
  <2>3. \A k \in 1 .. n : (k \in 1 .. n - 1 /\ k < n) \/ k = n
    OBVIOUS
  <2>4. ~TakesValue(args[n]) /\ args[n].kind # "text" /\ args[n].kind # "unknown" /\ ~Dashed(args[n])
    BY <2>1 DEF TakesValue, Dashed
  <2>5. ASSUME NEW k \in 1 .. n
        PROVE  /\ args[k].kind = "text" <=> IsValue(args, k)
               /\ TakesValue(args[k]) => k < n
               /\ args[k].kind # "unknown"
               /\ ~Dashed(args[k])
               /\ args[k].kind = "end" => k = n
    BY <2>1, <2>3, <2>4, Zenon DEF Plain
  <2>6. CL!WellFormed(args)
    BY <1>1, <2>5, WellFormedIs
  <2>7. QED
    BY <1>1, <1>4, <2>1, <2>2, <2>6
<1>8. CASE Left(s, args, n)
  <2>1. s.args = TRUE /\ Stray(args, n)
    BY <1>8 DEF Left
  <2>2. PICK k \in 1 .. n :
          \/ args[k].kind = "text" /\ ~IsValue(args, k)
          \/ args[k].kind = "end" /\ k < n
    BY <2>1 DEF Stray
  <2>3. k < n => k # n
    OBVIOUS
  <2>4. ~CL!WellFormed(args)
    BY <1>1, <2>2, <2>3, WellFormedIs
  <2>5. QED
    BY <2>1, <2>4
<1>9. CASE Failed(s, args, n)
  <2>1. s.at = "error" /\ \E k \in 1 .. n : args[k].kind = "unknown"
    BY <1>9 DEF Failed
  <2>2. ~CL!WellFormed(args)
    BY <1>1, <2>1, WellFormedIs
  <2>3. QED
    BY <2>1, <2>2
<1>10. QED
  BY <1>2, <1>5, <1>6, <1>7, <1>8, <1>9 DEF Parsed

\* What validate accepts is what is documented, of values that are texts.
LEMMA ValidateIs ==
  ASSUME NEW c, TextValues(c), \A f \in CL!BoolFlags : c[f] = TRUE \/ c[f] = FALSE
  PROVE  ~CL!swallows(c) /\ (CL!validate(c) <=> CL!Documented(c))
<1>1. /\ c.output = CL!Text(c.output.text) /\ c.image = CL!Text(c.image.text)
      /\ c.libc = CL!Text(c.libc.text) /\ c.binaryPath = CL!Text(c.binaryPath.text)
  BY DEF TextValues, CL!StringFlags
<1>2. ~CL!swallows(c)
  <2>1. \A x : CL!Text(x).kind = "text"
    BY DEF CL!Text, CL!Token
  <2>2. QED
    BY <1>1, <2>1 DEF CL!swallows
<1>3. c.libc \in { CL!Text("glibc"), CL!Text("musl") } <=> c.libc.text \in { "glibc", "musl" }
  <2>1. \A x : CL!Text(x).text = x
    BY DEF CL!Text, CL!Token
  <2>2. QED
    BY <1>1, <2>1
<1>4. /\ c.bios = TRUE \/ c.bios = FALSE
      /\ c.efi = TRUE \/ c.efi = FALSE
      /\ c.updateXbps = TRUE \/ c.updateXbps = FALSE
      /\ c.force = TRUE \/ c.force = FALSE
      /\ c.reinstallBootloader = TRUE \/ c.reinstallBootloader = FALSE
  BY DEF CL!BoolFlags
<1>5. /\ { c.bios, c.efi } # { TRUE } <=> ~(c.bios = TRUE /\ c.efi = TRUE)
      /\ { c.updateXbps, c.force } = { FALSE } <=> c.updateXbps = FALSE /\ c.force = FALSE
      /\ c.bios # c.efi <=> (c.bios = TRUE /\ c.efi = FALSE) \/ (c.bios = FALSE /\ c.efi = TRUE)
  BY <1>4
<1>6. CL!validate(c) <=> CL!Documented(c)
  BY <1>3, <1>4, <1>5, Zenon DEF CL!validate, CL!Documented, CL!DocumentedBuild, CL!DocumentedReuse
<1>7. QED
  BY <1>2, <1>6

-----------------------------------------------------------------------------
(* Command lines: a value that looks like a flag *)

\* The command line is lost, or f has the value v and waits for no other.
Stuck(s, f, v) == s.at = "error" \/ s.args = TRUE \/ (s.wants # f /\ s.cfg[f] = v)

\* It stays so if no later argument gives f.
LEMMA StuckNext ==
  ASSUME NEW T, Arguments(T), NEW s \in Parsers(T), Sane(s), NEW t \in T,
         NEW f \in CL!StringFlags, NEW v, Stuck(s, f, v), ~Gives(t, f)
  PROVE  Stuck(CL!ParseToken(s, t), f, v)
<1>1. PICK r : r = CL!ParseToken(s, t)
  OBVIOUS
<1>2. s.at \in { "flags", "rest", "error" } /\ (s.wants = "" \/ s.wants \in CL!StringFlags)
  BY DEF Parsers
<1>3. t.kind \in { "flag", "flag=", "text", "unknown", "end" } /\ (t.kind = "flag" => t.name \in Names)
  BY DEF Arguments, Argument
<1>4. PICK c \in [Names -> Values(T)] : c = s.cfg
  BY DEF Parsers
<1>5. f \in Names /\ f # "" /\ f \notin CL!BoolFlags
  BY FlagKinds DEF Names
<1>6. CASE s.at = "error"
  <2>1. r = s
    BY <1>1, <1>6, ParseFailed
  <2>2. QED
    BY <1>1, <2>1
<1>7. CASE s.at = "rest"
  <2>1. r.args = TRUE
    BY <1>1, <1>7, ParseRest
  <2>2. QED
    BY <1>1, <2>1 DEF Stuck
<1>8. CASE s.at = "flags"
  <2>1. State(s, "flags", s.wants) /\ s.wants # f /\ c[f] = v
    BY <1>4, <1>8 DEF Sane, Stuck, State
  <2>2. ASSUME NEW g \in CL!StringFlags, g = s.wants PROVE Stuck(r, f, v)
    <3>1. g # f /\ State(s, "flags", g) /\ g \in Names
      BY <2>1, <2>2 DEF Names
    <3>2. r.cfg = Put(c, g, t) /\ State(r, "flags", "")
      <4>1. State(s, "flags", g)
        BY <3>1
      <4>2. CL!ParseToken(s, t).cfg = Put(s.cfg, g, t) /\ State(CL!ParseToken(s, t), "flags", "")
        BY <4>1, ParseValue, Zenon
      <4>3. QED
        BY <1>1, <1>4, <4>2, Zenon
    <3>3. \A h \in Names : h # g => Put(c, g, t)[h] = c[h]
      <4>1. t \in Values(T) /\ g \in Names
        BY <3>1 DEF Values
      <4>2. QED
        BY <4>1, PutIs
    <3>4. r.cfg[f] = v
      BY <1>5, <2>1, <3>1, <3>2, <3>3, Zenon
    <3>5. QED
      BY <1>5, <3>2, <3>4 DEF Stuck, State
  <2>3. CASE s.wants = ""
    <3>1. State(s, "flags", "")
      BY <2>1, <2>3
    <3>2. CASE t.kind = "text"
      <4>1. r.args = TRUE
        BY <1>1, <3>1, <3>2, ParseText
      <4>2. QED
        BY <1>1, <4>1 DEF Stuck
    <3>3. CASE t.kind = "end"
      <4>1. r.cfg = c /\ State(r, "rest", "")
        BY <1>1, <1>4, <3>1, <3>3, ParseEnd
      <4>2. QED
        BY <1>1, <1>5, <2>1, <4>1 DEF Stuck, State
    <3>4. CASE t.kind = "flag="
      <4>1. PICK w \in Values(T) : w = CL!Given(t)
        BY DEF Values
      <4>2. r.cfg = Put(c, t.name, w) /\ State(r, "flags", "")
        BY <1>1, <1>4, <3>1, <3>4, <4>1, ParseBoth
      <4>3. PICK g \in Names : g = t.name /\ g # f
        BY <3>4 DEF Arguments, Argument, Names, Gives
      <4>4. \A h \in Names : h # g => Put(c, g, w)[h] = c[h]
        BY PutIs
      <4>5. r.cfg[f] = v
        BY <1>5, <2>1, <4>2, <4>3, <4>4, Zenon
      <4>6. QED
        BY <1>1, <1>5, <4>2, <4>5 DEF Stuck, State
    <3>5. CASE t.kind = "flag" /\ t.name \in CL!BoolFlags
      <4>1. r.cfg = On(c, t.name) /\ State(r, "flags", "")
        BY <1>1, <1>4, <3>1, <3>5, ParseOn
      <4>2. PICK g \in Names : g = t.name
        BY <3>5 DEF Names
      <4>3. g # f
        BY <1>5, <3>5, <4>2
      <4>4. On(c, g)[g] = TRUE /\ \A h \in Names : h # g => On(c, g)[h] = c[h]
        BY OnIs, Zenon
      <4>5. r.cfg[f] = v
        <5>1. r.cfg = On(c, g)
          BY <4>1, <4>2
        <5>2. On(c, g)[f] = v
          BY <1>5, <2>1, <4>3, <4>4
        <5>3. QED
          BY <5>1, <5>2
      <4>6. QED
        BY <1>1, <1>5, <4>1, <4>5 DEF Stuck, State
    <3>6. CASE t.kind = "flag" /\ t.name \in CL!StringFlags
      <4>1. r.cfg = c /\ State(r, "flags", t.name)
        BY <1>1, <1>4, <3>1, <3>6, ParseTakes
      <4>2. t.name # f
        BY <3>6 DEF Gives
      <4>3. QED
        BY <1>1, <2>1, <4>1, <4>2 DEF Stuck, State
    <3>7. CASE t.kind = "unknown"
      <4>1. r.at = "error"
        BY <1>1, <3>1, <3>7, ParseUnknown
      <4>2. QED
        BY <1>1, <4>1 DEF Stuck
    <3>8. QED
      BY <1>3, <3>2, <3>3, <3>4, <3>5, <3>6, <3>7 DEF Names
  <2>4. QED
    BY <1>1, <1>2, <2>2, <2>3
<1>9. QED
  BY <1>2, <1>6, <1>7, <1>8

\* Once it is, it stays so.
LEMMA StuckOn ==
  ASSUME NEW T, Arguments(T), NEW args, NEW n \in Nat, \A j \in 1 .. n : args[j] \in T,
         NEW i \in 1 .. n, NEW f \in CL!StringFlags, NEW v, Stuck(P!Folded(args, i), f, v),
         \A j \in i + 1 .. n : ~Gives(args[j], f)
  PROVE  Stuck(P!Folded(args, n), f, v)
<1> DEFINE G == { k \in Nat : i + k <= n => Stuck(P!Folded(args, i + k), f, v) }
<1>1. 0 \in G
  OBVIOUS
<1>2. ASSUME NEW k \in 1 .. n - i, k - 1 \in G PROVE k \in G
  <2>1. PICK l \in 1 .. n : /\ l = i + k /\ l - 1 = i + (k - 1) /\ l \in i + 1 .. n /\ l - 1 \in 0 .. n
                           /\ k \in Nat /\ i + (k - 1) <= n
    <3>1. /\ i + k \in 1 .. n /\ (i + k) - 1 = i + (k - 1) /\ i + k \in i + 1 .. n /\ (i + k) - 1 \in 0 .. n
          /\ k \in Nat /\ i + (k - 1) <= n
      OBVIOUS
    <3>2. QED
      BY <3>1
  <2>2. PICK u \in T : u = args[l] /\ ~Gives(u, f)
    BY <2>1
  <2>3. PICK p \in Parsers(T) : p = P!Folded(args, l - 1) /\ Sane(p)
    BY <2>1, ParsersAre
  <2>4. Stuck(p, f, v)
    BY <1>2, <2>1, <2>3
  <2>5. Stuck(CL!ParseToken(p, u), f, v)
    BY <2>2, <2>3, <2>4, StuckNext
  <2>6. P!Folded(args, l) = CL!ParseToken(p, u)
    BY <2>2, <2>3, ParsersAre
  <2>7. QED
    BY <2>1, <2>5, <2>6
<1>3. n - i \in G
  <2>1. n - i \in Nat /\ n - i \in 0 .. n - i
    OBVIOUS
  <2> HIDE DEF G
  <2>2. \A k \in 1 .. n - i : k - 1 \in G => k \in G
    BY <1>2
  <2>3. QED
    BY <1>1, <2>1, <2>2, N!UpTo
<1>4. i + (n - i) = n /\ n <= n
  OBVIOUS
<1>5. QED
  BY <1>3, <1>4

\* It is for good where arguments are left over or the parser has failed.
LEMMA StuckLost ==
  ASSUME NEW T, Arguments(T), NEW s \in Parsers(T), NEW t \in T,
         s.at = "error" \/ s.at = "rest"
  PROVE  \A f, v : Stuck(CL!ParseToken(s, t), f, v)
<1>1. CASE s.at = "error"
  BY <1>1, ParseFailed DEF Stuck
<1>2. CASE s.at = "rest"
  <2>1. CL!ParseToken(s, t).args = TRUE
    BY <1>2, ParseRest
  <2>2. QED
    BY <2>1 DEF Stuck
<1>3. QED
  BY <1>1, <1>2

\* A value that is put is the one that f has.
LEMMA StuckPut ==
  ASSUME NEW T, NEW s \in Parsers(T), NEW r, NEW f \in CL!StringFlags, NEW v \in Values(T),
         r.cfg = Put(s.cfg, f, v), State(r, "flags", "")
  PROVE  Stuck(r, f, v)
<1>1. f \in Names /\ f # ""
  BY FlagKinds DEF Names
<1>2. PICK c \in [Names -> Values(T)] : c = s.cfg
  BY DEF Parsers
<1>3. Put(c, f, v)[f] = v
  <2>1. f \in Names
    BY <1>1
  <2>2. QED
    BY <2>1 DEF Put
<1>4. QED
  BY <1>1, <1>2, <1>3 DEF Stuck, State

\* From the first value on that looks like a flag: an argument in the place of
\* the value of f, or one that has it in it.
LEMMA StuckFrom ==
  ASSUME NEW T, Arguments(T), NEW args, NEW n \in Nat, \A j \in 1 .. n : args[j] \in T,
         NEW i \in 1 .. n, Clean(args, i - 1), ~CleanAt(args, i)
  PROVE  \E f \in CL!StringFlags, v \in Values(T) :
           /\ v.kind # "text" /\ CL!LooksLikeFlag(args, i, f)
           /\ (\A j \in i + 1 .. n : ~Gives(args[j], f)) => Stuck(P!Folded(args, n), f, v)
<1>1. PICK m \in Nat : m = i - 1 /\ i = m + 1 /\ m \in 0 .. n
  <2>1. i - 1 \in Nat /\ i = (i - 1) + 1 /\ i - 1 \in 0 .. n
    OBVIOUS
  <2>2. QED
    BY <2>1
<1>2. PICK s \in Parsers(T) : s = P!Folded(args, m)
  BY <1>1, ParsersAre
<1>3. PICK t \in T : t = args[i]
  OBVIOUS
<1>4. PICK r : r = P!Folded(args, i) /\ r = CL!ParseToken(s, t)
  <2>1. P!Folded(args, i) = CL!ParseToken(P!Folded(args, i - 1), args[i])
    BY ParsersAre
  <2>2. QED
    BY <1>1, <1>2, <1>3, <2>1
<1>5. Parsed(s, args, m)
  <2>1. Clean(args, m) /\ \A j \in 1 .. m : args[j] \in T
    BY <1>1
  <2>2. QED
    BY <1>2, <2>1, ParsedUpTo
<1>6. SUFFICES \E f \in CL!StringFlags, v \in Values(T) :
        v.kind # "text" /\ CL!LooksLikeFlag(args, i, f) /\ Stuck(r, f, v)
  <2>1. PICK f \in CL!StringFlags, v \in Values(T) :
          v.kind # "text" /\ CL!LooksLikeFlag(args, i, f) /\ Stuck(r, f, v)
    BY <1>6
  <2>2. Stuck(P!Folded(args, i), f, v)
    BY <1>4, <2>1
  <2>3. (\A j \in i + 1 .. n : ~Gives(args[j], f)) => Stuck(P!Folded(args, n), f, v)
    BY <2>2, StuckOn
  <2>4. QED
    BY <2>1, <2>3
<1>7. s.at = "error" \/ s.at = "rest" => \A f, v : Stuck(r, f, v)
  BY <1>4, StuckLost
<1>8. CASE IsValue(args, i)
  <2>1. i > 1 /\ TakesValue(args[i - 1]) /\ t.kind # "text"
    <3>1. t.kind # "text"
      BY <1>3, <1>8 DEF CleanAt, Dashed
    <3>2. QED
      BY <1>8, <3>1 DEF IsValue
  <2>2. PICK f \in CL!StringFlags : f = args[i - 1].name /\ args[i - 1].kind = "flag"
    BY <2>1 DEF TakesValue
  <2>3. CL!LooksLikeFlag(args, i, f)
    BY <1>3, <2>1, <2>2 DEF CL!LooksLikeFlag
  <2>4. Stuck(r, f, t)
    <3>1. CASE Looking(s, args, m)
      BY <1>1, <1>8, <3>1 DEF Looking
    <3>2. CASE Waiting(s, args, m)
      <4>1. State(s, "flags", f)
        BY <1>1, <2>2, <3>2 DEF Waiting
      <4>2. r.cfg = Put(s.cfg, f, t) /\ State(r, "flags", "")
        BY <1>4, <4>1, ParseValue
      <4>3. t \in Values(T)
        BY DEF Values
      <4>4. QED
        BY <4>2, <4>3, StuckPut
    <3>3. CASE Ended(s, args, m)
      BY <1>1, <2>2, <3>3 DEF Ended
    <3>4. CASE Left(s, args, m) \/ Failed(s, args, m)
      BY <1>7, <3>4 DEF Left, Failed
    <3>5. QED
      BY <1>5, <3>1, <3>2, <3>3, <3>4 DEF Parsed
  <2>5. t \in Values(T)
    BY DEF Values
  <2>6. QED
    BY <2>1, <2>3, <2>4, <2>5
<1>9. CASE ~IsValue(args, i)
  <2>1. t.kind = "flag=" /\ t.text = "-"
    BY <1>3, <1>9 DEF CleanAt, Dashed
  <2>2. PICK f \in CL!StringFlags : f = t.name
    BY <2>1 DEF Arguments, Argument
  <2>3. PICK v \in Values(T) : v = CL!Given(t)
    BY DEF Values
  <2>4. v.kind # "text"
    BY <2>1, <2>3 DEF CL!Given, CL!Unknown, CL!Token
  <2>5. CL!LooksLikeFlag(args, i, f)
    BY <1>3, <2>1, <2>2 DEF CL!LooksLikeFlag
  <2>6. Stuck(r, f, v)
    <3>1. CASE Looking(s, args, m)
      <4>1. State(s, "flags", "")
        BY <3>1 DEF Looking
      <4>2. r.cfg = Put(s.cfg, f, v) /\ State(r, "flags", "")
        BY <1>4, <2>1, <2>2, <2>3, <4>1, ParseBoth
      <4>3. QED
        BY <4>2, StuckPut
    <3>2. CASE Waiting(s, args, m)
      <4>1. m # 0 /\ TakesValue(args[m])
        BY <3>2 DEF Waiting
      <4>2. i > 1 /\ i - 1 = m
        BY <1>1, <4>1
      <4>3. QED
        BY <1>9, <4>1, <4>2 DEF IsValue
    <3>3. CASE Ended(s, args, m) \/ Left(s, args, m) \/ Failed(s, args, m)
      BY <1>7, <3>3 DEF Ended, Left, Failed, State
    <3>4. QED
      BY <1>5, <3>1, <3>2, <3>3 DEF Parsed
  <2>7. QED
    BY <2>4, <2>5, <2>6
<1>10. QED
  BY <1>8, <1>9

\* AcceptsExactlyDocumented, of command lines of any length, and of any flags.
THEOREM CommandLines ==
  ASSUME NEW T, Arguments(T), NEW args \in Seq(T)
  PROVE  LET got == CL!parseFlags(args)
         IN  \/ CL!SwallowedUnseen(args)
             \/ /\ got.ok <=> CL!WellFormed(args) /\ CL!Documented(CL!Written(args))
                /\ got.ok => got.cfg = CL!Written(args)
<1>1. PICK n \in Nat : n = Len(args) /\ DOMAIN args = 1 .. n /\ \A j \in 1 .. n : args[j] \in T
  OBVIOUS
<1>2. PICK s : s = P!Folded(args, n)
  OBVIOUS
<1>3. CL!Parse(args) = s
  <2>1. P!Folded(args, n) = CL!FoldLeft(ParseArgument, CL!Parser, args)
    BY <1>1, Zenon DEF CL!FoldLeft, CL!MapThenFoldSet, CL!Max, P!Folded, P!Iter, P!Greatest
  <2>2. s = CL!FoldLeft(CL!ParseToken, CL!Parser, args)
    BY <1>2, <2>1, Zenon DEF CL!FoldLeft, CL!MapThenFoldSet, ParseArgument
  <2>3. QED
    BY <2>2, Zenon DEF CL!Parse
<1>4. PICK got : got = CL!parseFlags(args)
  OBVIOUS
<1>5. /\ got.ok <=> /\ s.at # "error" /\ s.wants = ""
                    /\ ~s.args /\ ~CL!swallows(s.cfg) /\ CL!validate(s.cfg)
      /\ got.cfg = s.cfg
  BY <1>3, <1>4, Zenon DEF CL!parseFlags
<1>6. CASE Clean(args, n)
  <2>1. /\ CL!WellFormed(args) <=> s.at # "error" /\ s.wants = "" /\ ~s.args
        /\ CL!WellFormed(args) => s.cfg = CL!Written(args) /\ Says(s.cfg, args, n) /\ TextValues(s.cfg)
    BY <1>1, <1>2, <1>6, CleanParsed
  <2>2. ASSUME CL!WellFormed(args)
        PROVE  ~CL!swallows(s.cfg) /\ (CL!validate(s.cfg) <=> CL!Documented(CL!Written(args)))
    <3>1. s.cfg = CL!Written(args) /\ Says(s.cfg, args, n) /\ TextValues(s.cfg)
      BY <2>1, <2>2
    <3>2. \A f \in CL!BoolFlags : s.cfg[f] = TRUE \/ s.cfg[f] = FALSE
      BY <3>1, Zenon DEF Says, SaysFlag
    <3>3. ~CL!swallows(s.cfg) /\ (CL!validate(s.cfg) <=> CL!Documented(s.cfg))
      BY <3>1, <3>2, ValidateIs
    <3>4. QED
      BY <3>1, <3>3
  <2>3. QED
    BY <1>4, <1>5, <2>1, <2>2, Zenon
<1>7. CASE ~Clean(args, n)
  <2> DEFINE Bad == { j \in 1 .. n : ~CleanAt(args, j) }
  <2>1. Bad # { } /\ Bad \subseteq 1 .. n
    BY <1>7 DEF Clean
  <2>2. PICK i \in Bad : \A j \in Bad : i <= j
    <3> HIDE DEF Bad
    <3>1. QED
      BY <2>1, HasLeast
  <2>3. i \in 1 .. n /\ ~CleanAt(args, i)
    BY <2>2
  <2>4. Clean(args, i - 1)
    <3>1. ASSUME NEW j \in 1 .. i - 1 PROVE j \in 1 .. n /\ j \notin Bad
      BY <2>2, <2>3
    <3>2. QED
      BY <3>1 DEF Clean
  <2>5. ~CL!WellFormed(args)
    BY <1>1, <2>3, WellFormedIs DEF CleanAt
  <2>6. SUFFICES ASSUME ~CL!SwallowedUnseen(args) PROVE ~got.ok
    BY <1>4, <2>5, Zenon
  <2>7. PICK f \in CL!StringFlags, v \in Values(T) :
          /\ v.kind # "text" /\ CL!LooksLikeFlag(args, i, f)
          /\ (\A j \in i + 1 .. n : ~Gives(args[j], f)) => Stuck(s, f, v)
    BY <1>1, <1>2, <2>3, <2>4, StuckFrom
  <2>8. f # "packages" /\ \A j \in i + 1 .. n : ~Gives(args[j], f)
    BY <1>1, <2>3, <2>6, <2>7, Zenon DEF CL!SwallowedUnseen, Gives
  <2>9. Stuck(s, f, v)
    BY <2>7, <2>8
  <2>10. CASE s.at = "error" \/ s.args = TRUE
    BY <1>5, <2>10, Zenon
  <2>11. CASE s.cfg[f] = v
    <3>1. f \in { "output", "image", "libc", "binaryPath" }
      BY <2>8 DEF CL!StringFlags
    <3>2. CL!swallows(s.cfg)
      BY <2>7, <2>11, <3>1 DEF CL!swallows
    <3>3. QED
      BY <1>5, <3>2, Zenon
  <2>12. QED
    BY <2>9, <2>10, <2>11 DEF Stuck
<1>8. QED
  BY <1>6, <1>7

\* The arguments of MCFunctions.
LEMMA ArgIs == Arguments(Arg)
<1>1. /\ \A f \in Names : Argument(CL!Flag(f))
      /\ \A f \in CL!StringFlags : \A x : Argument(CL!FlagWith(f, x))
      /\ \A x : Argument(CL!Text(x))
      /\ Argument(CL!Unknown) /\ Argument(CL!End)
  BY DEF Argument, CL!Flag, CL!FlagWith, CL!Text, CL!Unknown, CL!End, CL!Token
<1>2. /\ "libc" \in CL!StringFlags /\ "output" \in CL!StringFlags /\ "packages" \in CL!StringFlags
      /\ \A f \in { "bios", "efi", "output", "image", "packages", "libc", "force", "updateXbps",
                    "reinstallBootloader" } : f \in Names
  BY DEF Names, CL!BoolFlags, CL!StringFlags
<1>3. QED
  BY <1>1, <1>2, Zenon DEF Arguments, Arg

\* AcceptsExactlyDocumented, of all command lines.
THEOREM AlwaysAcceptsDocumented == Spec => []AcceptsExactlyDocumented
<1>1. Inputs => AcceptsExactlyDocumented
  BY ArgIs, CommandLines, Zenon DEF Inputs, AcceptsExactlyDocumented
<1>2. QED
  BY <1>1, InputsTyped, PTL
=============================================================================
