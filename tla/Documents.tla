------------------------------- MODULE Documents -------------------------------
(***************************************************************************)
(* What anago writes as JSON and reads back: the JSON text itself (core    *)
(* json.rs), the hub's state file (core state.rs), the device's file       *)
(* (join.rs) and the bodies of the control API (core proto.rs).            *)
(*                                                                         *)
(* A text is a sequence of tokens, a number or a string being one token;   *)
(* whitespace, the spelling of a string and byte offsets are left out.  A  *)
(* value is a record whose only field says its type, and an object is the  *)
(* sequence of its fields, since their order is written out.               *)
(*                                                                         *)
(* Whatever may be refused is a set: {} for an Err, {x} for Ok(x).  An     *)
(* Option of a document is a set too, {} for None.                         *)
(***************************************************************************)
EXTENDS Integers, Sequences, SequencesExt, FiniteSetsExt

CONSTANTS
  MaxDepth,             \* MAX_DEPTH: nesting a parse accepts
  MaxPort               \* u16::MAX

DocumentsAssumption == MaxDepth \in Nat /\ MaxPort \in Nat

Null == [null |-> TRUE]
Num(n) == [int |-> n]
Txt(s) == [str |-> s]
Arr(s) == [arr |-> s]
Obj(s) == [obj |-> s]

IsA(value, type) == type \in DOMAIN value
The(S) == CHOOSE x \in S : TRUE

\* Value::get: {} for a missing key, and for what is not an object.
Get(value, key) ==
  IF IsA(value, "obj") THEN {f[2] : f \in {g \in ToSet(value.obj) : g[1] = key}} ELSE {}

-----------------------------------------------------------------------------
(* Writing and reading the text.                                           *)

\* The items with a comma between them.
Separated(texts) ==
  FoldLeft(LAMBDA sofar, t : IF sofar = <<>> THEN t ELSE sofar \o << <<",">> >> \o t, <<>>, texts)

RECURSIVE Write(_)
Write(value) ==
  CASE IsA(value, "arr") ->
         << <<"[">> >> \o Separated([i \in DOMAIN value.arr |-> Write(value.arr[i])])
         \o << <<"]">> >>
    [] IsA(value, "obj") ->
         << <<"{">> >>
         \o Separated([i \in DOMAIN value.obj |->
                         << <<"str", value.obj[i][1]>>, <<":">> >> \o Write(value.obj[i][2])])
         \o << <<"}">> >>
    [] IsA(value, "str")  -> << <<"str", value.str>> >>
    [] IsA(value, "int")  -> << <<"int", value.int>> >>
    [] IsA(value, "bool") -> << <<IF value.bool THEN "true" ELSE "false">> >>
    [] IsA(value, "null") -> << <<"null">> >>

\* One value without parts.  A float, a number out of i64's range, a leading
\* zero and a misspelt literal are tokens of their own, and refused.
Scalar(token) ==
  CASE token[1] = "str"   -> {Txt(token[2])}
    [] token[1] = "int"   -> {Num(token[2])}
    [] token[1] = "null"  -> {Null}
    [] token[1] = "true"  -> {[bool |-> TRUE]}
    [] token[1] = "false" -> {[bool |-> FALSE]}
    [] OTHER              -> {}

Begins(text, mark) == text # <<>> /\ text[1] = <<mark>>

\* Mutation: of a key given twice the last value wins.
InsertOver(fields, key, value) ==
  {Append(SelectSeq(fields, LAMBDA f : f[1] # key), <<key, value>>)}

\* Object::insert.
Insert(fields, key, value) ==
  IF \E f \in ToSet(fields) : f[1] = key THEN {} ELSE {Append(fields, <<key, value>>)}

\* Parser::value, ::array and ::object, each with the text that is left.
RECURSIVE Value(_, _), Items(_, _, _), Fields(_, _, _)
Value(text, depth) ==
  CASE depth > MaxDepth \/ text = <<>> -> {}
    [] depth <= MaxDepth /\ Begins(text, "[") ->
         IF Begins(Tail(text), "]") THEN {<<Arr(<<>>), Tail(Tail(text))>>}
         ELSE Items(Tail(text), depth, <<>>)
    [] depth <= MaxDepth /\ Begins(text, "{") ->
         IF Begins(Tail(text), "}") THEN {<<Obj(<<>>), Tail(Tail(text))>>}
         ELSE Fields(Tail(text), depth, <<>>)
    [] OTHER -> {<<v, Tail(text)>> : v \in Scalar(text[1])}

Items(text, depth, sofar) ==
  UNION {LET items == Append(sofar, read[1]) IN
         CASE Begins(read[2], ",") -> Items(Tail(read[2]), depth, items)
           [] Begins(read[2], "]") -> {<<Arr(items), Tail(read[2])>>}
           [] OTHER -> {}
         : read \in Value(text, depth + 1)}

Fields(text, depth, sofar) ==
  IF ~(text # <<>> /\ text[1][1] = "str" /\ Begins(Tail(text), ":")) THEN {}
  ELSE UNION {UNION {CASE Begins(read[2], ",") -> Fields(Tail(read[2]), depth, fields)
                       [] Begins(read[2], "}") -> {<<Obj(fields), Tail(read[2])>>}
                       [] OTHER -> {}
                     : fields \in Insert(sofar, text[1][2], read[1])}
              : read \in Value(Tail(Tail(text)), depth + 1)}

\* Mutation: what follows the value is left unread.
ReadPrefix(text) == {read[1] : read \in Value(text, 0)}

\* json::parse: one value, and nothing after it.
Read(text) == {read[1] : read \in {r \in Value(text, 0) : r[2] = <<>>}}

\* How deep a value nests.
RECURSIVE Depth(_)
Depth(value) ==
  LET inner == IF IsA(value, "arr") THEN ToSet(value.arr)
               ELSE IF IsA(value, "obj") THEN {f[2] : f \in ToSet(value.obj)} ELSE {}
  IN Max({0} \cup {1 + Depth(v) : v \in inner})

-----------------------------------------------------------------------------
(* The spelling of a string, character by code point: 34 is the quote, 92  *)
(* the backslash, 117 a "u".  UTF-8 is left out.                           *)

ShortEscapes == << <<34, 34>>, <<92, 92>>, <<10, 110>>, <<13, 114>>, <<9, 116>>, <<8, 98>>,
                   <<12, 102>> >>

HexDigit(n) == IF n < 10 THEN 48 + n ELSE 87 + n
HexEscape(n) == <<92, 117, HexDigit(n \div 4096), HexDigit((n \div 256) % 16),
                  HexDigit((n \div 16) % 16), HexDigit(n % 16)>>

\* Mutation: a control character goes out as it is.
EscapeShortOnly(c) ==
  IF \E e \in ToSet(ShortEscapes) : e[1] = c
  THEN <<92, (CHOOSE e \in ToSet(ShortEscapes) : e[1] = c)[2]>> ELSE <<c>>

\* What one character is written as.
Escape(c) ==
  IF \E e \in ToSet(ShortEscapes) : e[1] = c
  THEN <<92, (CHOOSE e \in ToSet(ShortEscapes) : e[1] = c)[2]>>
  ELSE IF c < 32 THEN HexEscape(c) ELSE <<c>>

\* write_string.
WriteString(string) == <<34>> \o FlattenSeq([i \in DOMAIN string |-> Escape(string[i])]) \o <<34>>

\* hex4: the number of four hex digits, of either case.
HexValue(c) ==
  CASE c \in 48 .. 57  -> c - 48
    [] c \in 97 .. 102 -> c - 87
    [] c \in 65 .. 70  -> c - 55
    [] OTHER           -> -1
Hex4(text) ==
  IF Len(text) < 4 \/ \E i \in 1 .. 4 : HexValue(text[i]) < 0 THEN {}
  ELSE {FoldLeft(LAMBDA n, c : 16 * n + HexValue(c), 0, SubSeq(text, 1, 4))}

\* unicode_escape: the character after "\u", and the characters it took.
UnicodeEscape(text) ==
  UNION {CASE first \in 55296 .. 56319 ->
                IF ~(Len(text) > 5 /\ text[5] = 92 /\ text[6] = 117) THEN {}
                ELSE {<<65536 + 1024 * (first - 55296) + (low - 56320), 10>> :
                      low \in Hex4(SubSeq(text, 7, Len(text))) \cap 56320 .. 57343}
           [] first \in 56320 .. 57343 -> {}
           [] OTHER -> {<<first, 4>>}
         : first \in Hex4(text)}

\* Parser::string, after the quote: it must end the text here.
RECURSIVE StringRest(_, _)
StringRest(text, sofar) ==
  CASE text = <<>> -> {}
    [] text # <<>> /\ text[1] = 34 -> IF Tail(text) = <<>> THEN {sofar} ELSE {}
    [] text # <<>> /\ text[1] = 92 ->
         IF Len(text) = 1 THEN {}
         ELSE IF text[2] = 117
         THEN UNION {StringRest(SubSeq(text, 3 + read[2], Len(text)), Append(sofar, read[1])) :
                     read \in UnicodeEscape(SubSeq(text, 3, Len(text)))}
         ELSE UNION {StringRest(SubSeq(text, 3, Len(text)), Append(sofar, c)) :
                     c \in {e[1] : e \in {f \in ToSet(ShortEscapes) \cup {<<47, 47>>} :
                                          f[2] = text[2]}}}
    [] OTHER -> IF text[1] < 32 THEN {} ELSE StringRest(Tail(text), Append(sofar, text[1]))

ReadString(text) == IF text # <<>> /\ text[1] = 34 THEN StringRest(Tail(text), <<>>) ELSE {}

\* A character's UTF-16 units.
Utf16(c) == IF c < 65536 THEN <<c>>
            ELSE <<55296 + (c - 65536) \div 1024, 56320 + ((c - 65536) % 1024)>>

-----------------------------------------------------------------------------
(* The decode helpers of proto.rs and state.rs.                            *)

StringField(obj, name) == {v.str : v \in {w \in Get(obj, name) : IsA(w, "str")}}
IntField(obj, name) == {v.int : v \in {w \in Get(obj, name) : IsA(w, "int")}}
ArrayField(obj, name) == {v.arr : v \in {w \in Get(obj, name) : IsA(w, "arr")}}
ObjectField(obj, name) == {v \in Get(obj, name) : IsA(v, "obj")}

\* A port: any u16 in the state file, zero included.
PortField(obj, name) == {n \in IntField(obj, name) : n \in 0 .. MaxPort}

\* Mutation: an absent field counts as null.
NullableLenient(obj, name, found) ==
  IF Get(obj, name) \in {{}, {Null}} THEN {{}} ELSE {{x} : x \in found}

\* opt_*_field: `found` is what the field holds if it is not null.
Nullable(obj, name, found) ==
  IF Get(obj, name) = {Null} THEN {{}} ELSE {{x} : x \in found}

OptString(obj, name) == Nullable(obj, name, StringField(obj, name))
OptInt(obj, name) == Nullable(obj, name, IntField(obj, name))
OptObject(obj, name) == Nullable(obj, name, ObjectField(obj, name))

\* Every item decoded, or none.
Each(Decode(_), items) ==
  IF \E i \in DOMAIN items : Decode(items[i]) = {} THEN {}
  ELSE {[i \in DOMAIN items |-> The(Decode(items[i]))]}

\* opt_str and opt_time.
OrNull(type, option) == IF option = {} THEN Null ELSE [x \in {type} |-> The(option)]

\* The values of the typed texts: what each parse makes of a text.
Canonical == [phone |-> "phone", Phone |-> "phone", laptop |-> "laptop"]
Codes == [AAAABBBB |-> "AAAABBBB", aaaabbbb |-> "AAAABBBB"]
Hashes == {"h1", "h2"}
Addresses == {"10.9.0.1", "10.9.0.2", "10.9.0.3"}
Dot1 == [net |-> "10.9.0.1", other |-> "10.8.0.1"]    \* subnets and their .1

ParsedTo(table, texts) == {table[s] : s \in texts \cap DOMAIN table}
AddressField(obj, name) == StringField(obj, name) \cap Addresses

-----------------------------------------------------------------------------
(* The state file.                                                         *)

PeerToJson(peer) == Obj(<<
  <<"name", Txt(peer.name)>>, <<"public_key", Txt(peer.public_key)>>,
  <<"address", Txt(peer.address)>>, <<"token_hash", Txt(peer.token_hash)>>,
  <<"created_at", Num(peer.created_at)>>, <<"last_seen", OrNull("int", peer.last_seen)>> >>)

PeerFromJson(value) ==
  {[name |-> f[1], public_key |-> f[2], address |-> f[3], token_hash |-> f[4],
    created_at |-> f[5], last_seen |-> f[6]] :
   f \in ParsedTo(Canonical, StringField(value, "name"))
         \X StringField(value, "public_key") \X AddressField(value, "address")
         \X (StringField(value, "token_hash") \cap Hashes)
         \X IntField(value, "created_at") \X OptInt(value, "last_seen")}

CodeToJson(code) == Obj(<<
  <<"code", Txt(code.code)>>, <<"issued_at", Num(code.issued_at)>>,
  <<"expires_at", Num(code.expires_at)>>, <<"used_at", OrNull("int", code.used_at)>> >>)

CodeFromJson(value) ==
  {[code |-> f[1], issued_at |-> f[2], expires_at |-> f[3], used_at |-> f[4]] :
   f \in ParsedTo(Codes, StringField(value, "code"))
         \X IntField(value, "issued_at") \X IntField(value, "expires_at")
         \X OptInt(value, "used_at")}

AcmeToJson(acme) == Obj(<<
  <<"directory", Txt(acme.directory)>>, <<"contact", OrNull("str", acme.contact)>>,
  <<"account_key_path", Txt(acme.account_key_path)>>, <<"account_url", Txt(acme.account_url)>>,
  <<"challenge", Txt(acme.challenge)>>, <<"issued_at", Num(acme.issued_at)>>,
  <<"renew_after", Num(acme.renew_after)>> >>)

AcmeFromJson(value) ==
  {[directory |-> f[1], contact |-> f[2], account_key_path |-> f[3], account_url |-> f[4],
    challenge |-> f[5], issued_at |-> f[6], renew_after |-> f[7]] :
   f \in StringField(value, "directory") \X OptString(value, "contact")
         \X StringField(value, "account_key_path") \X StringField(value, "account_url")
         \X (StringField(value, "challenge") \cap {"http-01", "dns-01"})
         \X IntField(value, "issued_at") \X IntField(value, "renew_after")}

\* tls.acme is {} for a manual certificate (TlsSource).
TlsToJson(tls) == Obj(<<
  <<"source", Txt(IF tls.acme = {} THEN "manual" ELSE "acme")>>,
  <<"cert_path", Txt(tls.cert_path)>>, <<"key_path", Txt(tls.key_path)>>,
  <<"not_after", OrNull("int", tls.not_after)>>,
  <<"acme", IF tls.acme = {} THEN Null ELSE AcmeToJson(The(tls.acme))>> >>)

\* Mutation: the tag decides, and details that contradict it are dropped.
SourceByTag(tag, acme) ==
  IF tag = "manual" THEN {{}} ELSE {{a} : a \in UNION {AcmeFromJson(v) : v \in acme}}

\* The source: the tag and the details must agree.
Source(tag, acme) ==
  CASE tag = "manual" /\ acme = {} -> {{}}
    [] tag = "acme" /\ acme # {}   -> {{a} : a \in AcmeFromJson(The(acme))}
    [] OTHER                       -> {}

TlsFromJson(value, version) ==
  IF version = 1
  THEN {[acme |-> {}, cert_path |-> f[1], key_path |-> f[2], not_after |-> {}] :
        f \in StringField(value, "tls_cert_path") \X StringField(value, "tls_key_path")}
  ELSE UNION {UNION {{[acme |-> f[1], cert_path |-> f[2], key_path |-> f[3], not_after |-> f[4]] :
                      f \in Source(s[1], s[2]) \X StringField(tls, "cert_path")
                            \X StringField(tls, "key_path") \X OptInt(tls, "not_after")} :
                     s \in StringField(tls, "source") \X OptObject(tls, "acme")} :
              tls \in ObjectField(value, "tls")}

CloudflareToJson(cloudflare) ==
  IF cloudflare = {} THEN Null
  ELSE LET cf == The(cloudflare) IN Obj(<<
    <<"zone_id", Txt(cf.zone_id)>>, <<"record_id", OrNull("str", cf.record_id)>>,
    <<"token_path", OrNull("str", cf.token_path)>> >>)

CloudflareFromJson(value, version) ==
  IF version = 1 THEN {{}}
  ELSE UNION {IF cf = {} THEN {{}}
              ELSE {{[zone_id |-> f[1], record_id |-> f[2], token_path |-> f[3]]} :
                    f \in StringField(The(cf), "zone_id") \X OptString(The(cf), "record_id")
                          \X OptString(The(cf), "token_path")} :
              cf \in OptObject(value, "cloudflare")}

ServerToJson(server) == Obj(<<
  <<"private_key", Txt(server.private_key)>>, <<"public_key", Txt(server.public_key)>>,
  <<"address", Txt(server.address)>> >>)

ServerFromJson(value) ==
  {[private_key |-> f[1], public_key |-> f[2], address |-> f[3]] :
   f \in StringField(value, "private_key") \X StringField(value, "public_key")
         \X AddressField(value, "address")}

Seq2(Encode(_), items) == Arr([i \in DOMAIN items |-> Encode(items[i])])

StateToJson(state) == Obj(<<
  <<"version", Num(2)>>, <<"domain", Txt(state.domain)>>, <<"subnet", Txt(state.subnet)>>,
  <<"listen_port", Num(state.listen_port)>>, <<"api_port", Num(state.api_port)>>,
  <<"tls", TlsToJson(state.tls)>>, <<"cloudflare", CloudflareToJson(state.cloudflare)>>,
  <<"server", ServerToJson(state.server)>>,
  <<"peers", Seq2(PeerToJson, state.peers)>>, <<"codes", Seq2(CodeToJson, state.codes)>> >>)

\* Mutation: a version of the future is read for what it has.
VersionsForward == {1, 2, 3}
\* SCHEMA_VERSION and LEGACY_SCHEMA_VERSION.
Versions == {1, 2}

\* ServerState::from_json.
StateFromJson(value) ==
  UNION {
    {[domain |-> f[1], subnet |-> f[2], listen_port |-> f[3], api_port |-> f[4], tls |-> f[5],
      cloudflare |-> f[6], server |-> f[7], peers |-> f[8], codes |-> f[9]] :
     f \in {g \in StringField(value, "domain")
                  \X (StringField(value, "subnet") \cap DOMAIN Dot1)
                  \X PortField(value, "listen_port") \X PortField(value, "api_port")
                  \X TlsFromJson(value, version) \X CloudflareFromJson(value, version)
                  \X (UNION {ServerFromJson(s) : s \in Get(value, "server")})
                  \X (UNION {Each(PeerFromJson, a) : a \in ArrayField(value, "peers")})
                  \X (UNION {Each(CodeFromJson, a) : a \in ArrayField(value, "codes")}) :
             g[7].address = Dot1[g[2]]}} :
    version \in IntField(value, "version") \cap Versions}

-----------------------------------------------------------------------------
(* The device's file and the bodies of the API.  Their texts are not       *)
(* checked here: a body is only a shape.                                   *)

\* The fields of a flat record of texts.
TextsToJson(names, record) == [i \in DOMAIN names |-> <<names[i], Txt(record[names[i]])>>]
TextsFromJson(names, value) ==
  IF \E n \in ToSet(names) : StringField(value, n) = {} THEN {}
  ELSE {[n \in ToSet(names) |-> The(StringField(value, n))]}

JoinRequest == <<"code", "name", "public_key">>
HubFields == <<"subnet", "server_public_key", "server_endpoint", "server_address">>
JoinResponse == <<"name", "address", "subnet", "token", "server_public_key",
                  "server_endpoint", "server_address">>
PeerInfo == <<"name", "public_key", "address">>
DeviceTexts == <<"domain", "name", "address", "subnet", "token", "server_public_key",
                  "server_endpoint", "server_address">>
ErrorCodes == {"invalid_code", "invalid_name", "name_taken", "invalid_public_key",
                 "subnet_full", "unauthorized", "not_found", "bad_request", "internal"}

\* DeviceConfig: version 1, and the port the join was made on.
DeviceToJson(config) == Obj(<< <<"version", Num(1)>>, <<"api_port", Num(config.api_port)>> >>
                            \o TextsToJson(DeviceTexts, config.texts))
DeviceFromJson(value) ==
  {[api_port |-> f[2], texts |-> f[3]] :
   f \in (IntField(value, "version") \cap {1}) \X (PortField(value, "api_port") \ {0})
         \X TextsFromJson(DeviceTexts, value)}

PeerInfoFromJson(value) == TextsFromJson(PeerInfo, value)
PeerInfoToJson(peer) == Obj(TextsToJson(PeerInfo, peer))

\* PeersResponse: the hub is {} from one that does not describe itself.
PeersToJson(answer) == Obj(<< <<"peers", Seq2(PeerInfoToJson, answer.peers)>> >>
                           \o (IF answer.hub = {} THEN <<>>
                               ELSE TextsToJson(HubFields, The(answer.hub))))

\* Mutation: half a description counts as none.
HubFromJsonLenient(value) ==
  IF TextsFromJson(HubFields, value) = {} THEN {{}}
  ELSE {{h} : h \in TextsFromJson(HubFields, value)}

\* All four fields, or none.
HubFromJson(value) ==
  IF \A n \in ToSet(HubFields) : Get(value, n) = {} THEN {{}}
  ELSE {{h} : h \in TextsFromJson(HubFields, value)}

PeersFromJson(value) ==
  {[peers |-> f[1], hub |-> f[2]] :
   f \in (UNION {Each(PeerInfoFromJson, a) : a \in ArrayField(value, "peers")})
         \X HubFromJson(value)}

ErrorFromJson(value) ==
  {f \in TextsFromJson(<<"code", "message">>, value) : f.code \in ErrorCodes}

-----------------------------------------------------------------------------
(* What is written as what.                                                *)

\* A version 1 file, as M0 wrote it: two flat paths and no Cloudflare.
Legacy(state) ==
  Obj(<< <<"version", Num(1)>>, <<"tls_cert_path", Txt(state.tls.cert_path)>>,
         <<"tls_key_path", Txt(state.tls.key_path)>> >>
      \o SelectSeq(StateToJson(state).obj,
                   LAMBDA f : f[1] \notin {"version", "tls", "cloudflare"}))

Encode(kind, doc) ==
  CASE kind = "state"  -> StateToJson(doc)
    [] kind = "legacy" -> Legacy(doc)
    [] kind = "device" -> DeviceToJson(doc)
    [] kind = "peers"  -> PeersToJson(doc)
    [] kind = "join"   -> Obj(TextsToJson(JoinRequest, doc))
    [] kind = "joined" -> Obj(TextsToJson(JoinResponse, doc))
    [] kind = "error"  -> Obj(TextsToJson(<<"code", "message">>, doc))

Decode(kind, value) ==
  CASE kind \in {"state", "legacy"} -> StateFromJson(value)
    [] kind = "device" -> DeviceFromJson(value)
    [] kind = "peers"  -> PeersFromJson(value)
    [] kind = "join"   -> TextsFromJson(JoinRequest, value)
    [] kind = "joined" -> TextsFromJson(JoinResponse, value)
    [] kind = "error"  -> ErrorFromJson(value)

\* One edit of a value, at any depth: a field lost, a cell replaced.
RECURSIVE Edits(_, _)
Edits(value, cells) ==
  cells
  \cup (IF ~IsA(value, "obj") THEN {} ELSE
        {Obj(RemoveAt(value.obj, i)) : i \in DOMAIN value.obj}
        \cup UNION {{Obj([value.obj EXCEPT ![i] = <<@[1], v>>]) :
                     v \in Edits(value.obj[i][2], cells)} : i \in DOMAIN value.obj})
  \cup (IF ~IsA(value, "arr") THEN {} ELSE
        UNION {{Arr([value.arr EXCEPT ![i] = v]) : v \in Edits(value.arr[i], cells)} :
               i \in DOMAIN value.arr})

\* A value with every typed text in its canonical spelling.
RECURSIVE Folded(_)
Folded(value) ==
  CASE IsA(value, "str") ->
         Txt(CASE value.str \in DOMAIN Canonical -> Canonical[value.str]
               [] value.str \in DOMAIN Codes     -> Codes[value.str]
               [] OTHER                          -> value.str)
    [] IsA(value, "arr") -> Arr([i \in DOMAIN value.arr |-> Folded(value.arr[i])])
    [] IsA(value, "obj") -> Obj([i \in DOMAIN value.obj |->
                                   <<value.obj[i][1], Folded(value.obj[i][2])>>])
    [] OTHER -> value

\* Reading a text honestly: whatever is read is what writing it again would
\* produce, and what was written is read back unless it nests too deep.  `text`
\* is any sequence of tokens.
TextHonest(value, text) ==
  /\ \A v \in Read(text) : Write(v) = text
  /\ Read(Write(value)) = IF Depth(value) <= MaxDepth THEN {value} ELSE {}

\* A string is read back as it was written; the escapes of a character's UTF-16
\* units read as that character, and no others are read at all.
StringHonest(string, units) ==
  /\ ReadString(WriteString(string)) = {string}
  /\ \A s \in ReadString(<<34>> \o FlattenSeq([i \in DOMAIN units |-> HexEscape(units[i])])
                         \o <<34>>) :
       FlattenSeq([i \in DOMAIN s |-> Utf16(s[i])]) = units
  /\ ReadString(<<34>> \o FlattenSeq([i \in DOMAIN string |->
         FlattenSeq([j \in DOMAIN Utf16(string[i]) |-> HexEscape(Utf16(string[i])[j])])])
       \o <<34>>) = {string}

\* Nothing is made up and nothing is lost: a document is read back as it was
\* written, an edited one is refused unless every cell of it is kept, a field
\* nobody knows changes nothing, and an old file keeps its contents when it is
\* written in the current version.
DocumentHonest(kind, doc, edited) ==
  /\ Decode(kind, Encode(kind, doc)) = {doc}
  /\ \A d \in Decode(kind, edited) :
       /\ Folded(Encode(kind, d)) = Folded(edited)
       /\ kind = "legacy" => Decode("state", Encode("state", d)) = {d}
  /\ IsA(edited, "obj") =>
       Decode(kind, Obj(Append(edited.obj, <<"comment", Null>>))) = Decode(kind, edited)

=============================================================================
