------------------------------- MODULE MCUriSplit ------------------------------
(* Small instances of UriSplit for TLC: forms with up to two parameters    *)
(* whose names and values hold the characters the decoders look for, and   *)
(* all short strings over them.                                            *)
EXTENDS UriSplit

CONSTANT MaxLen  \* bound on the strings

a == 97
A == 65
z == 122
two == 50
Paths == {<< <<>> >>, << <<a>>, <<z, Equals>> >>, << <<>>, <<Hash>> >>}
Names == {<<a>>, <<A>>, <<z, Ampersand, Question>>}
Values == {<<>>, <<z, Slash>>, <<Percent>>, <<Hash, two, a>>}
Params == [name : Names, value : Values]
Fragments == {<<>>, <<Hash, Equals>>}

MCForms ==
  [path : Paths, params : {<<>>}, fragment : {<<>>}]
  \cup [path : Paths, params : {<<p>> : p \in Params}, fragment : Fragments]
  \cup [path : Paths, params : Params \X Params, fragment : Fragments]

Chars == {Slash, Question, Equals, Ampersand, Hash, Percent, two, 48, a, z}
MCStrings ==
  {s \in BoundedSeq(Chars, MaxLen) : Len(s) > 0 /\ (s[1] = Slash \/ Len(s) = 1)}
  \cup {<<Slash, Question, z, Equals>> \o s : s \in BoundedSeq(Chars, MaxLen - 1)}
=============================================================================
