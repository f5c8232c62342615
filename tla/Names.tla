--------------------------------- MODULE Names ---------------------------------
(***************************************************************************)
(* The words that go between people, hubs and servers: a join code, a      *)
(* device's name, a token and its hash, an ACME challenge, a name on the   *)
(* wire of DNS, an endpoint and a request of HTTP.  A text is a sequence   *)
(* of characters, each a model value or a string of one; lengths are       *)
(* constants, so that a bound is met by a short text.                      *)
(***************************************************************************)
EXTENDS Naturals, FiniteSets, Sequences, SequencesExt

CONSTANTS
  GroupLen,     \* characters in each of the two groups of a join code
  HexLen,       \* of a token
  MaxLen,       \* of a device's name
  MaxToken,     \* of a challenge's token
  ThumbprintLen,
  MaxLabel,     \* bytes of a label of DNS
  MaxName       \* bytes of a name of DNS on the wire

LengthsAssumption ==
  {GroupLen, HexLen, MaxLen, MaxToken, ThumbprintLen, MaxLabel, MaxName} \subseteq Nat \ {0}

Ok(text) == [ok |-> TRUE, text |-> text]
Bad(why) == [ok |-> FALSE, text |-> <<why>>]

White == {" ", "\n"}
Digits == {"0", "1", "5", "9"}
Hex == Digits \cup {"a", "b"}
\* A letter of another script takes three bytes; "I." stands for a capital that
\* is two characters in lower case, the second of them no letter.
Korean == "han"
Dotted == "I."
Lower(c) == CASE c = "A" -> <<"a">> [] c = "B" -> <<"b">> [] c = Dotted -> <<"i", "dot">> [] OTHER -> <<c>>
Alphanumeric == Digits \cup {"a", "b", "i", "A", "B", Dotted, Korean}
Ascii(c) == c \notin {Korean, Dotted, "dot"}
Bytes(text) == FoldLeft(LAMBDA n, c : n + IF Ascii(c) THEN 1 ELSE 3, 0, text)

Each(text, F(_)) == FoldLeft(LAMBDA made, c : made \o F(c), <<>>, text)
RECURSIVE TrimStart(_, _)
TrimStart(text, chars) ==
  IF text # <<>> /\ Head(text) \in chars THEN TrimStart(Tail(text), chars) ELSE text
TrimEnd(text, chars) == Reverse(TrimStart(Reverse(text), chars))
Trim(text, chars) == TrimEnd(TrimStart(text, chars), chars)

-----------------------------------------------------------------------------
(* A join code.                                                            *)

CodeAlphabet == {"A", "B", "5", "9"}
CodeLen == 2 * GroupLen

Written(chars) == SubSeq(chars, 1, GroupLen) \o <<"-">> \o SubSeq(chars, GroupLen + 1, CodeLen)

Upper(c) == CASE c = "a" -> "A" [] c = "b" -> "B" [] OTHER -> c

\* Mutation: what is typed behind a whole code is left out.
ParseCodeLeading(input) ==
  LET typed == SelectSeq(input, LAMBDA c : c # "-" /\ c \notin White)
      chars == [i \in DOMAIN typed |-> Upper(typed[i])]
  IN CASE \E i \in DOMAIN chars : chars[i] \notin CodeAlphabet -> Bad("character")
       [] Len(chars) < CodeLen -> Bad("length")
       [] OTHER -> Ok(Written(SubSeq(chars, 1, CodeLen)))

\* JoinCode::parse.
ParseCode(input) ==
  LET typed == SelectSeq(input, LAMBDA c : c # "-" /\ c \notin White)
      chars == [i \in DOMAIN typed |-> Upper(typed[i])]
  IN CASE \E i \in 1 .. CodeLen \cap DOMAIN chars : chars[i] \notin CodeAlphabet -> Bad("character")
       [] Len(chars) > CodeLen ->
            Bad(IF chars[CodeLen + 1] \in CodeAlphabet THEN "length" ELSE "character")
       [] Len(chars) < CodeLen -> Bad("length")
       [] OTHER -> Ok(Written(chars))

\* Typed any way that a person might, a code is the one that was issued; nothing is
\* made up for a character that no code has, and nothing that was typed is dropped.
CodeTyped(input) ==
  LET read == ParseCode(input)
      typed == Each(input, LAMBDA c : IF c = "-" \/ c \in White THEN <<>> ELSE <<Upper(c)>>)
  IN /\ read.ok => /\ ParseCode(read.text) = read
                   /\ SelectSeq(read.text, LAMBDA c : c # "-") = typed
                   /\ read.text[GroupLen + 1] = "-"
     /\ read.ok <=> Len(typed) = CodeLen /\ ToSet(typed) \subseteq CodeAlphabet

\* Mutation: every byte is taken.
LimitWhole(characters) == 256

\* new_join_code: the bytes that are used of those that are drawn.
Limit(characters) == (256 \div characters) * characters
Index(byte, characters) == byte % characters

\* No character of a code is likelier than another, and at most half of what is
\* drawn is thrown away.
DrawnEvenly(characters) ==
  LET From(index) == {byte \in 0 .. 255 : byte < Limit(characters) /\ Index(byte, characters) = index}
  IN /\ \A i \in 1 .. characters - 1 : Cardinality(From(i)) = Cardinality(From(0))
     /\ 2 * Limit(characters) >= 256

-----------------------------------------------------------------------------
(* A device's name.                                                        *)

\* `server`, in two characters here.
Reserved == {<<"a", "a">>}

\* Mutation: a reserved name is looked for in what was typed.
ParseNameTyped(input) ==
  LET trimmed == Trim(input, White)
      name == Each(trimmed, Lower)
  IN CASE trimmed = <<>> -> Bad("empty")
       [] trimmed # <<>> /\ Len(name) > MaxLen -> Bad("long")
       [] \E i \in DOMAIN name : name[i] \notin Alphanumeric \cup {"-", "_"} -> Bad("character")
       [] name # <<>> /\ {name[1], Last(name)} \cap {"-", "_"} # {} -> Bad("edge")
       [] trimmed \in Reserved -> Bad("reserved")
       [] OTHER -> Ok(name)

\* DeviceName::parse.
ParseName(input) ==
  LET trimmed == Trim(input, White)
      name == Each(trimmed, Lower)
  IN CASE trimmed = <<>> -> Bad("empty")
       [] trimmed # <<>> /\ Len(name) > MaxLen -> Bad("long")
       [] \E i \in DOMAIN name : name[i] \notin Alphanumeric \cup {"-", "_"} -> Bad("character")
       [] name # <<>> /\ {name[1], Last(name)} \cap {"-", "_"} # {} -> Bad("edge")
       [] name \in Reserved -> Bad("reserved")
       [] OTHER -> Ok(name)

\* name_from_hostname: the first label, with whatever no name has made a hyphen.
NameFromHostname(hostname) ==
  LET dots  == {i \in DOMAIN hostname : hostname[i] = "."}
      label == IF dots = {} THEN hostname
               ELSE SubSeq(hostname, 1, (CHOOSE i \in dots : \A j \in dots : i <= j) - 1)
      clean == [i \in DOMAIN label |->
                 IF label[i] \in Alphanumeric \cup {"-", "_"} THEN label[i] ELSE "-"]
  IN ParseName(Trim(clean, {"-", "_"}))

\* encode_segment: a name on its way into a path; a character whose bytes are not
\* unreserved becomes an escape of them.
Unreserved == Digits \cup {"a", "b", "i", "A", "B", "-", "_", ".", "~"}
\* Mutation: only what ends a segment is escaped.
EncodeSegmentLoose(segment) ==
  [i \in DOMAIN segment |-> [mark |-> segment[i], escaped |-> segment[i] \in {"/", "?", "#"} \cup White]]
EncodeSegment(segment) ==
  [i \in DOMAIN segment |-> [mark |-> segment[i], escaped |-> segment[i] \notin Unreserved]]

\* What a server makes of a segment: a bare "%" takes what follows it for its digits.
RECURSIVE DecodeSegment(_)
DecodeSegment(path) ==
  IF path = <<>> THEN <<>>
  ELSE IF path[1] = [mark |-> "%", escaped |-> FALSE] THEN DecodeSegment(Tail(path))
  ELSE <<path[1].mark>> \o DecodeSegment(Tail(path))

\* One device has one name: however it is typed, it is read as it is kept, and the
\* name that a hub gives back is the one it took.  It is one word of a path, of a
\* configuration and of a shell, and a hostname becomes a name or none at all.
NameKept(input) ==
  LET read == ParseName(input)
      from == NameFromHostname(input)
      Safe(name) == /\ Len(name) \in 1 .. MaxLen
                    /\ ToSet(name) \cap (White \cup {"/", "?", "#", "%", "."}) = {}
                    /\ name \notin Reserved
  IN /\ read.ok => ParseName(read.text) = read /\ Safe(read.text)
     /\ from.ok => ParseName(from.text) = from /\ Safe(from.text)
     /\ NameFromHostname(input \o <<".", "a">>) = from

\* A segment comes out as it went in, and is a segment: it ends no path and no line.
SegmentKept(segment) ==
  LET path == EncodeSegment(segment)
  IN /\ DecodeSegment(path) = segment
     /\ \A i \in DOMAIN path : path[i].mark \in {"/", "?", "#", Korean} \cup White => path[i].escaped

-----------------------------------------------------------------------------
(* A token and its hash.                                                   *)

\* check_hex.
CheckHex(input) ==
  CASE Len(input) # HexLen -> Bad("length")
    [] Len(input) = HexLen /\ ~(ToSet(input) \subseteq Hex) -> Bad("character")
    [] OTHER -> Ok(input)

\* Mutation: only the last difference is kept.
ConstantTimeEqLast(a, b) ==
  Len(a) = Len(b) /\ ~FoldLeft(LAMBDA diff, i : a[i] # b[i], FALSE, [i \in DOMAIN a |-> i])

\* constant_time_eq: the differences are gathered, and looked at once.
ConstantTimeEq(a, b) ==
  Len(a) = Len(b) /\ ~FoldLeft(LAMBDA diff, i : diff \/ a[i] # b[i], FALSE, [i \in DOMAIN a |-> i])

\* A bearer is let in with the token it was given and with no other: two that are
\* taken for one are one, and have one spelling.
TokenExact(offered, kept) ==
  /\ ConstantTimeEq(offered, kept) <=> offered = kept
  /\ CheckHex(offered).ok /\ CheckHex(kept).ok /\ ConstantTimeEq(offered, kept) =>
       CheckHex(offered) = CheckHex(kept)
  /\ CheckHex(offered).ok => Len(offered) = HexLen /\ {"A", "B"} \cap ToSet(offered) = {}

-----------------------------------------------------------------------------
(* A challenge, and a name on the wire.                                    *)

Base64url == Digits \cup {"a", "b", "i", "A", "B", "-", "_"}

\* Mutation: whatever can be printed is taken.
ParseTokenLoose(input) ==
  IF Len(input) \in 1 .. MaxToken /\ ToSet(input) \cap White = {} THEN Ok(input) ELSE Bad("character")

\* ChallengeToken::parse and Thumbprint::parse.
ParseToken(input) ==
  CASE input = <<>> -> Bad("empty")
    [] Bytes(input) > MaxToken -> Bad("long")
    [] Bytes(input) \in 1 .. MaxToken /\ ~(ToSet(input) \subseteq Base64url) -> Bad("character")
    [] OTHER -> Ok(input)
ParseThumbprint(input) ==
  IF Len(input) = ThumbprintLen /\ ToSet(input) \subseteq Base64url THEN Ok(input) ELSE Bad("thumbprint")

KeyAuthorization(token, thumbprint) == token \o <<".">> \o thumbprint

\* The path that a challenge is answered at is one segment, and what is answered
\* names this token and this account, in one way only.
ChallengeExact(token, thumbprint) ==
  LET text == KeyAuthorization(token, thumbprint)
  IN ParseToken(token).ok /\ ParseThumbprint(thumbprint).ok =>
       /\ \A i \in DOMAIN token : ~EncodeSegment(token)[i].escaped
       /\ token \notin {<<>>, <<".">>, <<".", ".">>}
       /\ \A i \in DOMAIN text : text[i] = "." => i = Len(token) + 1

\* Mutation: the dot stays.
RecordNameDotted(domain) == <<"_acme", ".">> \o domain

\* dns01_record_name: one dot at the end is dropped.
RecordName(domain) ==
  <<"_acme", ".">> \o (IF domain # <<>> /\ Last(domain) = "." THEN Front(domain) ELSE domain)

\* The parts of a name between its dots.
LabelsOf(name) ==
  FoldLeft(LAMBDA labels, c : IF c = "." THEN Append(labels, <<>>)
                              ELSE Append(Front(labels), Append(Last(labels), c)),
           << <<>> >>, name)

\* A label on the wire is its length and its bytes; the name ends in a length of none.
Wire(labels) ==
  Each(labels, LAMBDA label : << <<"length", Len(label)>> >>
                              \o [i \in DOMAIN label |-> <<"byte", label[i]>>])
  \o << <<"length", 0>> >>

EncodedWithin(name, most) ==
  LET trimmed == TrimEnd(name, {"."})
      labels  == LabelsOf(trimmed)
  IN CASE trimmed = <<>> -> Bad("empty")
       [] \E i \in DOMAIN trimmed : ~Ascii(trimmed[i]) -> Bad("not ASCII")
       [] \E i \in DOMAIN labels : labels[i] = <<>> \/ Len(labels[i]) > MaxLabel -> Bad("label")
       [] trimmed # <<>> /\ Len(Wire(labels)) > most -> Bad("long")
       [] OTHER -> Ok(Wire(labels))

\* Mutation: the length of none at the end is not counted.
EncodeNameOpen(name) == EncodedWithin(name, MaxName + 1)

\* encode_name.
EncodeName(name) == EncodedWithin(name, MaxName)

\* What a server reads: labels, up to the length of none.
RECURSIVE Decoded(_)
Decoded(wire) ==
  LET length == wire[1][2]
  IN IF length = 0 THEN <<>>
     ELSE <<[i \in 1 .. length |-> wire[i + 1][2]]>>
          \o Decoded(SubSeq(wire, length + 2, Len(wire)))

\* A name that is asked about is read as the labels it has, within what DNS allows;
\* and the record that is written is the one that is asked about, however the
\* domain was ended.
NameOnWire(name) ==
  LET wire == EncodeName(name)
      record == RecordName(name)
  IN /\ wire.ok => /\ Decoded(wire.text) = LabelsOf(TrimEnd(name, {"."}))
                   /\ Len(wire.text) <= MaxName
                   /\ \A i \in DOMAIN Decoded(wire.text) : Len(Decoded(wire.text)[i]) \in 1 .. MaxLabel
     /\ wire.ok /\ Last(name) # "." =>
          /\ record = <<"_acme", ".">> \o name
          /\ RecordName(name \o <<".">>) = record

-----------------------------------------------------------------------------
(* An endpoint, and a request.                                             *)

Value(digits) ==
  FoldLeft(LAMBDA n, c : 10 * n + (CASE c = "0" -> 0 [] c = "1" -> 1 [] c = "5" -> 5 [] c = "9" -> 9),
           0, digits)

HostChars == {"a", "b", "i", "A", "B", "-", "."} \cup Digits

EndpointFrom(text, least, most) ==
  LET colons == {i \in DOMAIN text : text[i] = ":"}
      at     == CHOOSE i \in colons : \A j \in colons : j <= i
      host   == SubSeq(text, 1, at - 1)
      after  == SubSeq(text, at + 1, Len(text))
      digits == IF after # <<>> /\ Head(after) = "+" THEN Tail(after) ELSE after
  IN IF colons = {} THEN Bad("no port")
     ELSE IF host = <<>> \/ ~(ToSet(host) \subseteq HostChars) THEN Bad("host")
     ELSE IF digits = <<>> \/ ~(ToSet(digits) \subseteq Digits) THEN Bad("number")
     ELSE IF Value(digits) \notin least .. most THEN Bad("range")
     ELSE Ok(host \o <<":">> \o TrimStart(digits, {"0"}))

\* Mutation: any port that is a number is one.
CheckedEndpointZero(text, most) == EndpointFrom(text, 0, most)

\* checked_endpoint: the last colon ends the host; a port may begin with a plus and
\* with zeros, which are not kept.
CheckedEndpoint(text, most) == EndpointFrom(text, 1, most)

\* What a hub says of where it is ends up on one line of a file that root runs: it
\* is a host and a port, one spelling of them, and nothing besides.
EndpointOnly(text, most) ==
  LET read == CheckedEndpoint(text, most)
      said == read.text
      at   == CHOOSE i \in DOMAIN said : said[i] = ":"
  IN read.ok =>
       /\ CheckedEndpoint(said, most) = read
       /\ Cardinality({i \in DOMAIN said : said[i] = ":"}) = 1
       /\ at > 1 /\ ToSet(SubSeq(said, 1, at - 1)) \subseteq HostChars
       /\ ToSet(SubSeq(said, at + 1, Len(said))) \subseteq Digits
       /\ Value(SubSeq(said, at + 1, Len(said))) \in 1 .. most

\* host_header: the port that https has is left out.
HostHeader(host, port) == IF port = <<"443">> THEN host ELSE host \o <<":">> \o port

\* Mutation: the characters of the body are counted.
ContentLengthChars(body) == Len(body)

ContentLength(body) == Bytes(body)

\* request_bytes: head and body of a request on the wire, the body byte by byte.
RequestBytes(host, port, body) ==
  [host   |-> HostHeader(host, port),
   length |-> ContentLength(body),
   bytes  |-> Each(body, LAMBDA c : IF Ascii(c) THEN << <<c, 1>> >>
                                    ELSE << <<c, 1>>, <<c, 2>>, <<c, 3>> >>)]

\* A server that reads what the length says reads the body that was meant, and
\* tells by the host which of its names and ports was meant.
RequestWhole(host, port, body) ==
  LET sent == RequestBytes(host, port, body)
      read == SubSeq(sent.bytes, 1, sent.length)
      whole == SelectSeq(read, LAMBDA b : b[2] = 1)
  IN /\ [i \in DOMAIN whole |-> whole[i][1]] = body
     /\ Len(read) = sent.length
     /\ body # <<>> => read[Len(read)][2] = IF Ascii(Last(body)) THEN 1 ELSE 3
=============================================================================
