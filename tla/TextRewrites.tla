---------------------------- MODULE TextRewrites ----------------------------
(***************************************************************************)
(* The functions of both programs that rewrite or compose text, as         *)
(* operators on what they tell apart.  A configuration file is the         *)
(* sequence of its lines; a managed file is a sequence of tokens; a text   *)
(* of user-data is a sequence of characters, one of each class.            *)
(***************************************************************************)
EXTENDS Naturals, Sequences, SequencesExt

-----------------------------------------------------------------------------
(* Lines: assignments KEY=value, the same commented out, blanks, others    *)

Line(kind, key, value) == [kind |-> kind, key |-> key, value |-> value]
Set(key, value)    == Line("set", key, value)
Comment(key)       == Line("comment", key, "")   \* "# KEY=..."
Other(text)        == Line("other", "", text)
Blank              == Line("blank", "", "")

\* writeFile: no blank at the end but the one newline, which strings.Split
\* shows as an empty last line.
writeFile(lines) ==
  LET full == { k \in DOMAIN lines : lines[k].kind # "blank" }
      text == IF full = {} THEN << Blank >> ELSE SubSeq(lines, 1, Max(full))
  IN  Append(text, Blank)

grubFastbootSettings ==
  << Set("GRUB_TIMEOUT", "0"), Set("GRUB_TIMEOUT_STYLE", "hidden"),
     Set("GRUB_RECORDFAIL_TIMEOUT", "0") >>

\* grubDefaultKeyRE: an assignment of key, whether or not it's commented out.
Assigns(line, key) == line.kind \in { "set", "comment" } /\ line.key = key

\* Mutant of setGrubFastboot: a key is appended whether or not it was found.
AppendsAlways(lines) == writeFile(lines \o grubFastbootSettings)

\* The settings that a line assigns: none or one, as their keys differ.
Assigned(line) == { k \in DOMAIN grubFastbootSettings : Assigns(line, grubFastbootSettings[k].key) }

\* Lines that assign a key are replaced in place, keys without one appended.
setGrubFastboot(lines) ==
  LET found    == UNION { Assigned(lines[k]) : k \in DOMAIN lines }
      replaced == [k \in DOMAIN lines |->
                     IF Assigned(lines[k]) = {} THEN lines[k]
                     ELSE grubFastbootSettings[CHOOSE j \in Assigned(lines[k]) : TRUE]]
      Missing(k) == IF k \in found THEN << >> ELSE << grubFastbootSettings[k] >>
  IN  writeFile(replaced \o Missing(1) \o Missing(2) \o Missing(3))

bashPromptLine == Set("PS1", "prompt")
bashrcTemplate == << Other("interactive"), Blank, Other("alias"), bashPromptLine >>

\* ps1LineRE has no place for a "#".
IsPS1(line) == line.kind = "set" /\ line.key = "PS1"

\* setBashPrompt, of a file that is there.
setBashPrompt(lines) ==
  IF \E k \in DOMAIN lines : IsPS1(lines[k])
  THEN writeFile([k \in DOMAIN lines |-> IF IsPS1(lines[k]) THEN bashPromptLine ELSE lines[k]])
  ELSE writeFile(bashrcTemplate)

-----------------------------------------------------------------------------
(* Managed files: the marker, newlines, spaces, and any other text *)

IsBlank(token) == token \in { "newline", "space" }
IsMarker(token) == token = "MARK"

withSingleTrailingNewline(s) ==
  LET full == { k \in DOMAIN s : ~IsBlank(s[k]) }
  IN  (IF full = {} THEN << >> ELSE SubSeq(s, 1, Max(full))) \o << "newline" >>

\* Mutant of AfterMarker: the last marker counts.
AfterLastMarker(s) ==
  LET k == SelectLastInSeq(s, IsMarker) IN IF k = 0 THEN << >> ELSE SubSeq(s, k + 1, Len(s))

\* All up to the first marker, and all after it.
UpToMarker(s) == SubSeq(s, 1, SelectInSeq(s, IsMarker))
AfterMarker(s) ==
  LET k == SelectInSeq(s, IsMarker) IN IF k = 0 THEN << >> ELSE SubSeq(s, k + 1, Len(s))

\* writeManagedFile, of a rendered text that has a marker.
writeManagedFile(rendered, existing) ==
  withSingleTrailingNewline(UpToMarker(rendered) \o AfterMarker(existing))

\* The two ways in which its callers end what they render: with the marker,
\* and (resolv.conf) with a newline after it.
Renderings == { << "text", "newline", "MARK" >>, << "text", "newline", "MARK", "newline" >> }

-----------------------------------------------------------------------------
(* user-data: letters, dashes, colons, spaces, newlines *)

isSpaceOrControl(c) == c \in { "space", "newline" }

\* Mutant of validate: a key may contain anything.
ValidateWithoutKeys(u) ==
  /\ \A field \in { u.hostname, u.user, u.password } : \A k \in DOMAIN field : ~isSpaceOrControl(field[k])
  /\ "colon" \notin ToSet(u.user) /\ (u.user # << >> => u.user[1] # "dash")

\* validate; what it says of fqdn is what it says of hostname.
validate(u) ==
  /\ \A k \in DOMAIN u.hostname : ~isSpaceOrControl(u.hostname[k])
  /\ \A k \in DOMAIN u.user : ~isSpaceOrControl(u.user[k])
  /\ "colon" \notin ToSet(u.user) /\ (u.user # << >> => u.user[1] # "dash")
  /\ \A k \in DOMAIN u.password : ~isSpaceOrControl(u.password[k])
  /\ \A i \in DOMAIN u.keys : "newline" \notin ToSet(u.keys[i])

\* What applyHostname, applyPassword and applySSHAuthorizedKeys write (the last
\* one if there are keys, and with the marker after the empty line).
hostnameFile(u)   == withSingleTrailingNewline(u.hostname)
chpasswdRecord(u) == u.user \o << "colon" >> \o u.password \o << "newline" >>
AddKey(text, key) == text \o key \o << "newline" >>
authorizedKeys(u) == Append(FoldLeft(AddKey, << >>, u.keys), "newline")

\* The lines of a text, as its readers see them.
ReadChar(s, c) ==
  IF c = "newline" THEN [done |-> Append(s.done, s.line), line |-> << >>]
  ELSE [s EXCEPT !.line = Append(@, c)]
LinesOf(text) == FoldLeft(ReadChar, [done |-> << >>, line |-> << >>], text).done

-----------------------------------------------------------------------------
(* Netmasks: a sequence of octets of Width bits each *)

\* Powers of two.
Pow2[n \in Nat] == IF n = 0 THEN 1 ELSE 2 * Pow2[n - 1]

OctetMax(width) == Pow2[width] - 1

\* How many leading ones an octet has if nothing but zeros follows them, and
\* otherwise width + 1 (net.IPMask.Size looks at octets in this way).
LeadingOnes(octet, width) ==
  IF \E k \in 0 .. width : octet = Pow2[width] - Pow2[width - k]
  THEN CHOOSE k \in 0 .. width : octet = Pow2[width] - Pow2[width - k] ELSE width + 1

SizeIgnoresRest(mask, width) ==   \* mutant: octets after the first partial one are not looked at
  FoldLeft(LAMBDA s, octet :
             IF s.full THEN [n |-> s.n + LeadingOnes(octet, width), full |-> octet = OctetMax(width)]
             ELSE s,
           [n |-> 0, full |-> TRUE], mask).n

\* The size after one more octet: n ones so far, nothing but ones if full.
AddOctet(s, octet, width) ==
  [n    |-> IF s.full THEN s.n + LeadingOnes(octet, width) ELSE s.n,
   full |-> s.full /\ octet = OctetMax(width),
   ok   |-> s.ok /\ IF s.full THEN LeadingOnes(octet, width) <= width ELSE octet = 0]

\* netmaskToCIDR: -1 is its error.
netmaskToCIDR(mask, width) ==
  LET size == FoldLeft(LAMBDA s, octet : AddOctet(s, octet, width),
                       [n |-> 0, full |-> TRUE, ok |-> TRUE], mask)
  IN  IF size.ok THEN size.n ELSE 0 - 1
=============================================================================
