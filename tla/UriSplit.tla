-------------------------------- MODULE UriSplit -------------------------------
(***************************************************************************)
(* What happens to the uri of a request: CHttpServerRequest::HttpDecodeUri *)
(* replaces the escapes of the whole uri, then UriSplit::Decode splits     *)
(* what came out into path, parameters and fragment, and replaces the      *)
(* escapes in the values of parameters a second time.                      *)
(*                                                                         *)
(* A character is its code, 0 the terminator of a C string.  Every action  *)
(* is one round of a loop.  The signs, blanks and "0x" that sscanf also    *)
(* takes for a number are not in the inputs.                               *)
(***************************************************************************)
EXTENDS Integers, Sequences, FiniteSets, SequencesExt

CONSTANTS
  Forms,   \* what clients mean: [path, params, fragment], see Encode
  Strings  \* uris from anywhere

VARIABLES
  form,      \* history: what the uri means, NoForm for one from anywhere
  src,       \* the uri in the first line of the request
  point,     \* the character the loop is at
  res,       \* what HttpDecodeUri has pushed
  phase,     \* where the two functions are
  temp,      \* the locals of Decode
  value,
  path,      \* the members of UriSplit
  params,
  fragment

inputvars == <<form, src>>
splitvars == <<temp, value, path, params, fragment>>
urivars == <<inputvars, point, res, phase, splitvars>>

Hash == 35
Percent == 37
Ampersand == 38
Slash == 47
Equals == 61
Question == 63
NoForm == <<>>

(* *str: the character at i of a C string. *)
At(s, i) == IF i <= Len(s) THEN s[i] ELSE 0
IsHex(c) == c \in 48..57 \cup 65..70 \cup 97..102
Nibble(c) == IF c <= 57 THEN c - 48 ELSE IF c <= 70 THEN c - 55 ELSE c - 87
Byte(high, low) == 16 * Nibble(high) + Nibble(low)

(* The order of params is string_less_nocase. *)
NoCase(name) == [i \in DOMAIN name |-> IF name[i] \in 65..90 THEN name[i] + 32 ELSE name[i]]
-----------------------------------------------------------------------------
(* How a client writes a form: the values escaped for Decode, then the     *)
(* whole of it for HttpDecodeUri.                                          *)
Digit(n) == IF n < 10 THEN 48 + n ELSE 55 + n
Quote(s, chars) ==
  FlattenSeq([i \in DOMAIN s |->
    IF s[i] \in chars THEN <<Percent, Digit(s[i] \div 16), Digit(s[i] % 16)>> ELSE <<s[i]>>])
Pair(p) == p.name \o <<Equals>> \o Quote(p.value, {Percent, Ampersand, Hash})
Text(f) ==
  FlattenSeq([i \in DOMAIN f.path |-> <<Slash>> \o f.path[i]])
  \o FlattenSeq([i \in DOMAIN f.params |->
       <<IF i = 1 THEN Question ELSE Ampersand>> \o Pair(f.params[i])])
  \o IF f.fragment = <<>> THEN <<>> ELSE <<Hash>> \o f.fragment
Encode(f) == Quote(Text(f), {Percent})

(* The value a form gives a name: the last one. *)
Given(f) ==
  [k \in {NoCase(f.params[i].name) : i \in DOMAIN f.params} |->
    f.params[Max({i \in DOMAIN f.params : NoCase(f.params[i].name) = k})].value]
-----------------------------------------------------------------------------
(* A uri is a C string. *)
Char == 1..255
ASSUME InputAssumption == Strings \subseteq Seq(Char)

(* The forms that can be written so: no segment of a path holds a "/" or a *)
(* "?", no name a "=".  A "#" begins a fragment only behind parameters.    *)
ASSUME FormAssumption ==
  \A f \in Forms :
    /\ f.path \in Seq(Seq(Char \ {Slash, Question})) /\ f.path # <<>>
    /\ f.params \in Seq([name : Seq(Char \ {Equals}), value : Seq(Char)])
    /\ f.fragment \in Seq(Char)
    /\ f.params = <<>> => f.fragment = <<>>

UriInit ==
  /\ \/ form \in Forms /\ src = Encode(form)
     \/ form = NoForm /\ src \in Strings
  /\ point = 1
  /\ res = <<>>
  /\ phase = "uri"
  /\ temp = <<>>
  /\ value = <<>>
  /\ path = <<>>
  /\ params = <<>>
  /\ fragment = <<>>

(* HttpDecodeUri. *)
CopyChar ==
  /\ phase = "uri"
  /\ At(src, point) \notin {0, Percent}
  /\ res' = Append(res, src[point])
  /\ point' = point + 1
  /\ UNCHANGED <<inputvars, phase, splitvars>>

(* What sscanf makes of the escape at point: one digit is enough. *)
Scanned ==
  LET high == At(src, point + 1)
      low == At(src, point + 2)
  IN IF ~IsHex(high) THEN <<>>
     ELSE IF ~IsHex(low) THEN <<Nibble(high)>>
     ELSE <<Byte(high, low)>>

(* The loop goes on where `to' is, which may be behind the terminator.     *)
(* What it would read there is not modelled.                               *)
EscapeTo(to) ==
  /\ phase = "uri"
  /\ At(src, point) = Percent
  /\ res' = res \o Scanned
  /\ point' = to
  /\ phase' = IF to > Len(src) + 1 THEN "outside" ELSE phase
  /\ UNCHANGED <<inputvars, splitvars>>

(* Faulty variant of DecodeEscape: the walk skips one more. *)
DecodeEscapeFour == EscapeTo(point + 4)

DecodeEscape == EscapeTo(point + 3)

(* The end of HttpDecodeUri and the beginning of Decode. *)
StartSplit ==
  /\ phase = "uri"
  /\ At(src, point) = 0
  /\ point' = 2
  /\ phase' = IF At(res, 1) = Slash THEN "path" ELSE "refused"
  /\ UNCHANGED <<inputvars, res, splitvars>>

(* Decode: a character in one of its loops.                                *)
In(loop, chars) ==
  /\ phase = loop
  /\ At(res, point) \in chars
  /\ point' = point + 1
  /\ UNCHANGED <<inputvars, res>>
NotIn(loop, chars) == In(loop, (1..255) \ chars)

PathChar ==
  /\ NotIn("path", {Question, Slash})
  /\ temp' = Append(temp, res[point])
  /\ UNCHANGED <<phase, value, path, params, fragment>>

EndSegment ==
  /\ In("path", {0, Question, Slash})
  /\ path' = Append(path, temp)
  /\ temp' = <<>>
  /\ phase' = CASE At(res, point) = 0 -> "accepted"
                [] At(res, point) = Question -> "name"
                [] OTHER -> "path"
  /\ UNCHANGED <<value, params, fragment>>

NameChar ==
  /\ NotIn("name", {Equals})
  /\ temp' = Append(temp, res[point])
  /\ UNCHANGED <<phase, value, path, params, fragment>>

(* Faulty variant of EndName: "&" ends a parameter without a value. *)
EndNameAtAmpersand ==
  /\ In("name", {0, Equals, Ampersand})
  /\ phase' = IF At(res, point) = Equals THEN "value" ELSE "refused"
  /\ UNCHANGED splitvars

EndName ==
  /\ In("name", {0, Equals})
  /\ phase' = IF At(res, point) = 0 THEN "refused" ELSE "value"
  /\ UNCHANGED splitvars

ValueChar ==
  /\ NotIn("value", {Ampersand, Hash, Percent})
  /\ value' = Append(value, res[point])
  /\ UNCHANGED <<phase, temp, path, params, fragment>>

ValueEscape ==
  /\ phase = "value"
  /\ At(res, point) = Percent
  /\ LET high == At(res, point + 1)
         low == At(res, point + 2)
     IN IF IsHex(high) /\ IsHex(low)
        THEN value' = Append(value, Byte(high, low)) /\ UNCHANGED phase
        ELSE phase' = "refused" /\ UNCHANGED value
  /\ point' = point + 3
  /\ UNCHANGED <<inputvars, res, temp, path, params, fragment>>

(* params[temp]=value at the end of a parameter. *)
StoreParam ==
  /\ In("value", {0, Ampersand, Hash})
  /\ params' = [k \in DOMAIN params \cup {NoCase(temp)} |->
                 IF k = NoCase(temp) THEN value ELSE params[k]]
  /\ phase' = CASE At(res, point) = 0 -> "accepted"
                [] At(res, point) = Hash -> "fragment"
                [] OTHER -> "name"
  /\ UNCHANGED <<path, fragment>>

(* Faulty variant of EndParam: the value is not cleared. *)
EndParamKeepsValue ==
  /\ StoreParam
  /\ temp' = <<>>
  /\ UNCHANGED value

(* At the end of the string nothing is cleared, as nothing follows. *)
EndParam ==
  /\ StoreParam
  /\ temp' = IF At(res, point) = 0 THEN temp ELSE <<>>
  /\ value' = IF At(res, point) = 0 THEN value ELSE <<>>

FragmentChar ==
  /\ NotIn("fragment", {})
  /\ fragment' = Append(fragment, res[point])
  /\ UNCHANGED <<phase, temp, value, path, params>>

EndFragment ==
  /\ In("fragment", {0})
  /\ phase' = "accepted"
  /\ UNCHANGED splitvars

UriNext ==
  \/ CopyChar \/ DecodeEscape \/ StartSplit
  \/ PathChar \/ EndSegment \/ NameChar \/ EndName
  \/ ValueChar \/ ValueEscape \/ EndParam \/ FragmentChar \/ EndFragment

UriSpec == UriInit /\ [][UriNext]_urivars
-----------------------------------------------------------------------------
(* A form that a client writes as the two decoders expect it is read back  *)
(* as it was meant, whatever its values hold: the segments of the path,    *)
(* the last value of each name without regard to case, and the fragment    *)
(* (HttpServerRequest.cpp:241-399).                                        *)
FormRead ==
  form # NoForm =>
    /\ phase \notin {"refused", "outside"}
    /\ phase = "accepted" =>
         /\ path = form.path
         /\ params = Given(form)
         /\ fragment = form.fragment

(* The walk of HttpDecodeUri ends at the terminator unless an escape is    *)
(* cut off by it (HttpServerRequest.cpp:27).                               *)
EndsInside ==
  phase = "outside" =>
    \E i \in DOMAIN src : src[i] = Percent /\ i > Len(src) - 2

(* Decode refuses a uri only where it has no leading slash, a parameter    *)
(* without "=" or a value with something else than two digits behind "%".  *)
RefusedForCause ==
  LET visible == {i \in DOMAIN res : \A j \in 1..i : res[j] # 0}
  IN phase = "refused" =>
       \/ At(res, 1) # Slash
       \/ \E i \in visible : /\ res[i] \in {Question, Ampersand}
                             /\ \A j \in visible : j > i => res[j] # Equals
       \/ \E i \in visible : /\ res[i] = Percent
                             /\ ~(IsHex(At(res, i + 1)) /\ IsHex(At(res, i + 2)))
=============================================================================
