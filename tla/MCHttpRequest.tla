----------------------------- MODULE MCHttpRequest ----------------------------
(* Small instances of HttpRequest for TLC: messages with and without heads *)
(* and bodies, and some that the parser must refuse.                       *)
EXTENDS HttpRequest

First(act, uri) == <<act, "sp">> \o uri \o <<"sp", "http", "cr">>
Host == <<"host", "colon", "x", "cr">>
Empty == <<"cr">>
Body2 == <<"nl", "GET">>
Request(lines, tail, uri, resault) ==
  [lines |-> lines, tail |-> tail,
   meaning |-> << [uri |-> uri, body |-> tail, resault |-> resault] >>]

(* The last of them ends where the limit of a line is met: the parser      *)
(* gives up and begins anew in the middle of the line.                     *)
MCMessages == {
  Request(<<First("GET", <<"escaped">>), Host, Empty>>, <<>>, <<"plain">>, TRUE),
  Request(<<First("POST", <<"a">>), <<"sp", "length", "sp", "colon", "two", "cr">>, Empty>>,
          Body2, <<"a">>, TRUE),
  Request(<<First("POST", <<"b">>), <<"length", "colon", "zero", "cr">>,
            <<"host", "colon", "cr">>, Empty>>, <<>>, <<"b">>, TRUE),
  Request(<<First("POST", <<"c">>), <<"length", "colon", "sp", "cr">>, Empty>>,
          <<>>, <<"c">>, TRUE),
  Request(<<First("PUT", <<"d">>), Host, Empty>>, <<>>, <<"d">>, FALSE),
  Request(<<First("GET", <<"e">>), <<"host", "cr">>, Empty>>, <<>>, <<"e">>, FALSE),
  Request(<<First("GET", <<"f">>), Empty>>, <<>>, <<>>, FALSE),
  Request(<< <<"GET", "sp", "g", "cr">>, Host, Empty>>, <<>>, <<>>, FALSE),
  [lines |-> <<>>, tail |-> [i \in 1..(MaxLine + 2) |-> "x"],
   meaning |-> << [uri |-> <<>>, body |-> <<>>, resault |-> FALSE] >>]
}

(* The rest of a line that is too long, a head that breaks off, and an     *)
(* endless body.                                                           *)
MCLasts == {
  Request(<< <<"x">>, <<>> >>, <<>>, <<>>, FALSE),
  [lines |-> <<>>, tail |-> <<"GET", "sp">>, meaning |-> <<>>],
  [lines |-> <<First("POST", <<"a">>), <<"length", "colon", "minus">>, <<>> >>,
   tail |-> <<"x", "nl", "nl">>, meaning |-> <<>>]
}
=============================================================================
