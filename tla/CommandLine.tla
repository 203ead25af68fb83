---------------------------- MODULE CommandLine ----------------------------
(***************************************************************************)
(* cmd/void-initfs, flags.go: what a command line means.  The arguments    *)
(* are folded into a configuration the way package flag does it, and that  *)
(* is then checked.  An argument is a token: the two spellings of a flag   *)
(* (-o and --output set the same variable) are the same token.             *)
(***************************************************************************)
EXTENDS Naturals, Sequences, SequencesExt

CONSTANT Existing   \* the texts that name a file that exists

Token(kind, name, text) == [kind |-> kind, name |-> name, text |-> text]
Flag(name)           == Token("flag", name, "")
FlagWith(name, text) == Token("flag=", name, text)   \* --libc=musl; "-" is any text
                                                     \* that begins so: --libc=-x
Text(text)           == Token("text", "", text)      \* does not begin with "-"
Unknown              == Token("unknown", "", "")     \* a flag that is not defined, or
                                                     \* another text that begins with "-"
End                  == Token("end", "", "")         \* "--"

NoText == Text("")

BoolFlags   == { "bios", "efi", "reinstallBootloader", "updateXbps", "assumeYes", "force" }
StringFlags == { "libc", "packages", "output", "image", "binaryPath" }

\* config, before flag.Parse.
Default ==
  [bios |-> FALSE, efi |-> FALSE, libc |-> Text("glibc"), packages |-> NoText,
   output |-> NoText, image |-> NoText, reinstallBootloader |-> FALSE,
   binaryPath |-> Text("."), updateXbps |-> FALSE, assumeYes |-> FALSE, force |-> FALSE]

-----------------------------------------------------------------------------
(* flag.Parse: from left to right, until an argument that is no flag.      *)

Parser == [cfg |-> Default, wants |-> "", at |-> "flags", args |-> FALSE]

\* The value that a string flag is given in the same argument.
Given(t) == IF t.text = "-" THEN Unknown ELSE Text(t.text)

TurnOn(s, name) == [s EXCEPT !.cfg[name] = TRUE]

\* s.wants is the string flag that the next argument is the value of, whatever
\* it looks like; s.args says that arguments are left over (flag.NArg).
ParseToken(s, t) ==
  IF s.at = "error" THEN s
  ELSE IF s.at = "rest" THEN [s EXCEPT !.args = TRUE]
  ELSE IF s.wants # "" THEN [s EXCEPT !.cfg[s.wants] = t, !.wants = ""]
  ELSE CASE t.kind = "text"  -> [s EXCEPT !.at = "rest", !.args = TRUE]
         [] t.kind = "end"   -> [s EXCEPT !.at = "rest"]
         [] t.kind = "flag=" -> [s EXCEPT !.cfg[t.name] = Given(t)]
         [] t.kind = "flag" /\ t.name \in BoolFlags   -> TurnOn(s, t.name)
         [] t.kind = "flag" /\ t.name \in StringFlags -> [s EXCEPT !.wants = t.name]
         [] OTHER            -> [s EXCEPT !.at = "error"]

Parse(args) == FoldLeft(ParseToken, Parser, args)

-----------------------------------------------------------------------------
(* The checks of parseFlags *)

Exists(t) == t.kind = "text" /\ t.text \in Existing

\* Mutant of swallows: --libc is not looked at.
SwallowsUnlessLibc(c) == \E f \in { "output", "image", "binaryPath" } : c[f].kind # "text"

\* checkSwallowedValues: a value that begins with "-", but not of -p.
swallows(c) == \E f \in { "output", "image", "libc", "binaryPath" } : c[f].kind # "text"

\* Mutant of validate: the checks of -f come before those of -i.
ForceChecksFirst(c) ==
  /\ ~(c.bios /\ c.efi)
  /\ \/ c.force /\ c.output # NoText
     \/ /\ c.image # NoText /\ c.output = NoText /\ ~c.updateXbps /\ ~c.force /\ Exists(c.image)
     \/ /\ c.image = NoText /\ c.output # NoText /\ ~Exists(c.output)
        /\ (c.bios \/ c.efi) /\ c.libc \in { Text("glibc"), Text("musl") }

\* validate, in its order: with -i nothing else is looked at.
validate(c) ==
  /\ ~(c.bios /\ c.efi)
  /\ IF c.image # NoText
     THEN c.output = NoText /\ ~c.updateXbps /\ ~c.force /\ Exists(c.image)
     ELSE /\ ~c.reinstallBootloader
          /\ c.output # NoText
          /\ Exists(c.output) => c.force
          /\ c.bios \/ c.efi
          /\ c.libc \in { Text("glibc"), Text("musl") }

parseFlags(args) ==
  LET s == Parse(args)
  IN  [ok  |-> /\ s.at # "error" /\ s.wants = ""
               /\ ~s.args /\ ~swallows(s.cfg) /\ validate(s.cfg),
       cfg |-> s.cfg]

requestedLayout(c) == IF c.bios THEN "bios" ELSE IF c.efi THEN "efi" ELSE "none"

-----------------------------------------------------------------------------
(* The reference: what a command line says, and which ones are documented  *)

\* Every argument is a flag, or the value right after a flag that takes one, and
\* no value looks like a flag.
WellFormed(args) ==
  \A k \in DOMAIN args :
    LET isValue   == k > 1 /\ args[k - 1].kind = "flag" /\ args[k - 1].name \in StringFlags
        wantsNext == args[k].kind = "flag" /\ args[k].name \in StringFlags
    IN  /\ args[k].kind = "text" <=> isValue
        /\ wantsNext => k < Len(args)
        /\ args[k].kind # "unknown"
        /\ args[k].kind = "flag=" => args[k].text # "-"
        /\ args[k].kind = "end" => k = Len(args)

\* The variables as written: a flag that is given is on, and of several
\* values of one flag the last one counts.
Written(args) ==
  [f \in BoolFlags \union StringFlags |->
     IF f \in BoolFlags THEN \E k \in DOMAIN args : args[k] = Flag(f)
     ELSE LET here == { k \in DOMAIN args : args[k].kind \in { "flag", "flag=" }
                                            /\ args[k].name = f }
              last == CHOOSE k \in here : \A j \in here : j <= k
          IN  IF here = {} THEN Default[f]
              ELSE IF args[last].kind = "flag=" THEN Given(args[last]) ELSE args[last + 1]]

\* README "void-initfs" and what the flags say of themselves (flags.go:29-44): -o
\* builds, of one layout and libc; -f is "with -o", to remove an existing file
\* "instead of failing", and --reinstall-bootloader is "with -i".
DocumentedBuild(c) ==
  /\ c.output # NoText /\ c.image = NoText
  /\ c.bios # c.efi
  /\ c.libc.text \in { "glibc", "musl" }
  /\ ~c.reinstallBootloader
  /\ c.force \/ ~Exists(c.output)

\* -i reuses an image, whose layout need not be given.  That -f and --update-xbps
\* do not go with it, and --reinstall-bootloader does, is what flags_test.go
\* (30-70) says too.
DocumentedReuse(c) ==
  /\ c.image # NoText /\ c.output = NoText
  /\ { c.bios, c.efi } # { TRUE }
  /\ { c.updateXbps, c.force } = { FALSE }
  /\ Exists(c.image)

Documented(c) == DocumentedBuild(c) \/ DocumentedReuse(c)

\* What args[k] has for a value of f looks like a flag.
LooksLikeFlag(args, k, f) ==
  \/ k > 1 /\ args[k - 1].kind = "flag" /\ args[k - 1].name = f /\ args[k].kind # "text"
  \/ args[k].kind = "flag=" /\ args[k].name = f /\ args[k].text = "-"

\* A value that looks like a flag, and that checkSwallowedValues does not see: one
\* of -p, or one that a later value of the same flag replaces.
SwallowedUnseen(args) ==
  \E k \in DOMAIN args, f \in StringFlags :
    /\ LooksLikeFlag(args, k, f)
    /\ \/ f = "packages"
       \/ \E j \in k + 1 .. Len(args) :
            args[j].name = f /\ args[j].kind \in { "flag", "flag=" }
=============================================================================
