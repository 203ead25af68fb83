---------------------------- MODULE MCFunctions ----------------------------
(***************************************************************************)
(* Every bounded input of the functions of CommandLine and TextRewrites.   *)
(* A behaviour picks a function and makes an input for it token by token,  *)
(* so that an input is a state and a counterexample shows how it is made.  *)
(***************************************************************************)
EXTENDS TextRewrites

CONSTANTS
  MaxArgs,   \* bound: arguments on a command line
  MaxLines,  \* bound: lines of a configuration file
  MaxTokens, \* bound: tokens of a managed file
  MaxChars,  \* bound: characters in all of user-data's values
  Width,     \* bits of an octet
  Existing   \* the texts that name a file that exists

ASSUME BoundsAssumption ==
  MaxArgs \in Nat /\ MaxLines \in Nat /\ MaxTokens \in Nat /\ MaxChars \in Nat
ASSUME WidthAssumption == Width \in Nat \ {0}

CL == INSTANCE CommandLine

VARIABLES function, input
vars == << function, input >>

Arg ==
  { CL!Flag("bios"), CL!Flag("efi"), CL!Flag("output"), CL!Flag("image"), CL!Flag("packages"),
    CL!Flag("libc"), CL!FlagWith("libc", "musl"), CL!FlagWith("output", "-"),
    CL!FlagWith("packages", "-"), CL!Flag("force"), CL!Flag("updateXbps"),
    CL!Flag("reinstallBootloader"), CL!Text("new.qcow2"), CL!Text("old.qcow2"),
    CL!Unknown, CL!End }

GrubLine ==
  { Set("GRUB_TIMEOUT", "5"), Comment("GRUB_TIMEOUT"), Set("GRUB_TIMEOUT_STYLE", "menu"),
    Comment("GRUB_RECORDFAIL_TIMEOUT"), Set("GRUB_DEFAULT", "0"), Other("prose"), Blank }
BashLine == { Set("PS1", "old"), Comment("PS1"), Set("PS2", "old"), Other("alias"), Blank }

FileToken == { "MARK", "text", "newline", "space" }

Char == { "x", "dash", "colon", "space", "newline" }
NoUser == [hostname |-> << >>, user |-> << >>, password |-> << >>, keys |-> << >>]
Size(u) ==
  Len(u.hostname) + Len(u.user) + Len(u.password)
  + FoldLeft(LAMBDA n, key : n + 1 + Len(key), 0, u.keys)

Init ==
  \/ function = "userData" /\ input = NoUser
  \/ /\ function \in { "commandLine", "grub", "bashrc", "managedFile", "netmask" }
     /\ input = << >>

Grow(name, bound, tokens) ==
  /\ function = name /\ Len(input) < bound
  /\ \E t \in tokens : input' = Append(input, t)
  /\ UNCHANGED function

\* Arguments after an error make no difference.
GrowArgs == CL!Parse(input).at # "error" /\ Grow("commandLine", MaxArgs, Arg)

GrowUser ==
  /\ function = "userData" /\ Size(input) < MaxChars
  /\ \/ \E f \in { "hostname", "user", "password" }, c \in Char :
          input' = [input EXCEPT ![f] = Append(@, c)]
     \/ input' = [input EXCEPT !.keys = Append(@, << >>)]
     \/ /\ input.keys # << >>
        /\ \E c \in Char : input' = [input EXCEPT !.keys[Len(input.keys)] = Append(@, c)]
  /\ UNCHANGED function

Next ==
  \/ function = "commandLine" /\ GrowArgs
  \/ Grow("grub", MaxLines, GrubLine)
  \/ Grow("bashrc", MaxLines, BashLine)
  \/ Grow("managedFile", MaxTokens, FileToken)
  \/ Grow("netmask", 4, 0 .. OctetMax(Width))
  \/ GrowUser

Spec == Init /\ [][Next]_vars

-----------------------------------------------------------------------------
(* Properties *)

\* flags.go:29-44 and 61-71, README of the repository, "void-initfs": a command
\* line is accepted precisely if every argument is a flag or the value right
\* after one, no value begins with "-", and what is written is one of the
\* documented combinations, and then it means what is written, in whatever
\* order.  The one exception is a value that begins with "-" where the check
\* does not see it.  Of --reinstall-bootloader the flag's own text says "with
\* -i", as the code has it; the comment of validate (90-91) says the opposite.
AcceptsExactlyDocumented ==
  function = "commandLine" =>
    LET got == CL!parseFlags(input)
    IN  \/ CL!SwallowedUnseen(input)
        \/ /\ got.ok <=> CL!WellFormed(input) /\ CL!Documented(CL!Written(input))
           /\ got.ok => got.cfg = CL!Written(input)

\* What a reader of the file takes for the value of key: its last assignment.
Effective(lines, key) ==
  LET here == { k \in DOMAIN lines : lines[k].kind = "set" /\ lines[k].key = key }
  IN  IF here = {} THEN "" ELSE lines[Max(here)].value

\* The lines that are neither blank nor edited, in order.
Others(lines, Edited(_)) ==
  FoldLeft(LAMBDA kept, line :
             IF line.kind = "blank" \/ Edited(line) THEN kept ELSE Append(kept, line),
           << >>, lines)

SetsGrub(line) == \E k \in DOMAIN grubFastbootSettings : Assigns(line, grubFastbootSettings[k].key)

\* bootloader.go:72-82, bashprompt.go:50-52: whatever /etc/default/grub or
\* .bashrc looked like, afterwards the settings are the ones in effect, all
\* other lines are there in their order (unless .bashrc had no PS1), and doing
\* it again, as -i with --reinstall-bootloader does, changes nothing.
EditedInPlace ==
  /\ function = "grub" =>
       LET edited == setGrubFastboot(input)
       IN  /\ \A k \in DOMAIN grubFastbootSettings :
                Effective(edited, grubFastbootSettings[k].key) = grubFastbootSettings[k].value
           /\ Others(edited, SetsGrub) = Others(input, SetsGrub)
           /\ setGrubFastboot(edited) = edited
  /\ function = "bashrc" =>
       LET edited == setBashPrompt(input)
       IN  IF Effective(input, "PS1") = "" THEN edited = Append(bashrcTemplate, Blank)
           ELSE /\ Effective(edited, "PS1") = "prompt"
                /\ Others(edited, IsPS1) = Others(input, IsPS1)
                /\ setBashPrompt(edited) = edited

\* The user's section of a managed file: all after its first marker.
Section(s) ==
  LET marks == { k \in DOMAIN s : s[k] = "MARK" }
  IN  IF marks = {} THEN << >> ELSE SubSeq(s, Min(marks) + 1, Len(s))

\* fsutil.go:9-17, util.go:10-20: a rewritten file begins with what was rendered
\* up to the marker, all that followed the first marker follows it (but for
\* blanks at the end), and rewriting it once more, with either rendering,
\* changes nothing.
SectionSurvives ==
  function = "managedFile" =>
    \A r1, r2 \in Renderings :
      LET once == writeManagedFile(r1, input)
      IN  /\ IsPrefix(UpToMarker(r1), once)
          /\ Section(once) = withSingleTrailingNewline(Section(input))
          /\ writeManagedFile(r2, once) = once

IsColon(c) == c = "colon"

\* userdata.go:51-58, apply.go:61-68: of accepted user-data, each file has one
\* line for each value, and the chpasswd record is one line, whose fields are the
\* user and the hash.
SplicedExactly ==
  (function = "userData" /\ validate(input)) =>
    /\ LinesOf(hostnameFile(input)) = << input.hostname >>
    /\ input.keys # << >> => LinesOf(authorizedKeys(input)) = Append(input.keys, << >>)
    /\ LET lines == LinesOf(chpasswdRecord(input))
           colon == SelectInSeq(lines[1], IsColon)
       IN  /\ Len(lines) = 1
           /\ SubSeq(lines[1], 1, colon - 1) = input.user
           /\ SubSeq(lines[1], colon + 1, Len(lines[1])) = input.password

AddDigit(v, octet) == v * Pow2[Width] + octet

\* A netmask as the number whose digits are its octets.
Value(mask) == FoldLeft(AddDigit, 0, mask)

\* network.go:241-261: the prefix length of a netmask is the number of its
\* leading ones, 0 and all included, if no one follows a zero; any other mask
\* is an error and never a prefix of length 0.
NetmaskExact ==
  function = "netmask" =>
    LET n    == netmaskToCIDR(input, Width)
        bits == Width * Len(input)
    IN  IF \E k \in 0 .. bits : Value(input) = Pow2[bits] - Pow2[bits - k]
        THEN n \in 0 .. bits /\ Value(input) = Pow2[bits] - Pow2[bits - n]
        ELSE n = 0 - 1
=============================================================================
