------------------------------- MODULE MCParts -------------------------------
(* The parts that share no state with anything: the renewal loop of a hub,   *)
(* a challenge being proved, and the functions, each with its inputs.  A     *)
(* behaviour is one of them, and a function's is one input.                  *)
EXTENDS Challenge, Renewal, Integers, Sequences

VARIABLES which, input

C == INSTANCE Commands WITH MaxCount <- 131071
D == INSTANCE Decisions
J == INSTANCE Documents WITH MaxDepth <- 2, MaxPort <- 65535
U == INSTANCE Schedules
A == INSTANCE Advice WITH MaxCount <- 131071
N == INSTANCE Names WITH GroupLen <- 2, HexLen <- 3, MaxLen <- 3, MaxToken <- 3,
                         ThumbprintLen <- 2, MaxLabel <- 2, MaxName <- 6
P == INSTANCE Places
F == INSTANCE Formats WITH MaxJumps <- 2, MaxReads <- 2, Quiet <- 2, ConnectTimeout <- 6

ASSUME C!MaxCountAssumption /\ D!PerPageAssumption
ASSUME J!DocumentsAssumption /\ F!FormatsAssumption
ASSUME N!LengthsAssumption

challengeVars == <<zone, run, port80, orphans, faults>>
allVars == <<which, input, challengeVars, renewalVars>>

-----------------------------------------------------------------------------
(* Inputs.                                                                 *)

Upto(S, n) == UNION {[1 .. k -> S] : k \in 0 .. n}

Lines ==
  UNION {{[kind |-> "line", of |-> w, groups |-> g] : g \in Upto(C!GroupsOf(w), 3)} :
         w \in {"sync", "renew", "join", "init"}}
RmWords == {C!Word("phone"), C!Word("x"), C!Long("help"), C!Long("phone"), C!Short("h")}
Removals == [kind : {"rm"}, before : Upto(RmWords, 2), after : Upto(RmWords, 2)]
Intervals == [kind : {"interval"}, count : 0 .. 200, seconds : {1, 60, 3600}]

Configs == [name : {"n", "bad"}, address : {"a"}, subnet : {"s"}, server_public_key : {"k"},
            server_endpoint : {"e"}, server_address : {"x"}, own : {"own"}]
HubsSaid == [subnet : {"s", "t"}, server_public_key : {"k", "l", "bad"},
             server_endpoint : {"e", "f", "bad"}, server_address : {"x", "y"}, own : {"theirs"}]
Rosters == Upto([name : {"n", "m", "bad"}, address : {"a", "b"}], 2)
Syncs == [kind : {"sync"}, config : Configs, call : {"answered", "401", "timeout", "tls"},
          described : BOOLEAN, hub : HubsSaid, roster : Rosters]

TheRecords(id) == [id : {id}, name : {"here", "other"}, kind : {"A", "CNAME", "TXT"},
                   content : {"hub", "else"}, proxied : {"yes", "no"}, comment : {"mine"}]
Zones == {<<>>} \cup {<<r>> : r \in TheRecords("r1")}
         \cup {<<r, s>> : r \in TheRecords("r1"), s \in {t \in TheRecords("r2") : t.content = "hub"}}
         \cup {<<r, r, r>> : r \in {t \in TheRecords("r1") : t.kind = "A"}}
Listings(records) == {records} \cup {[records EXCEPT ![i].proxied = "absent"] : i \in DOMAIN records}
Answers == [status : {200, 403}, json : {TRUE}, success : BOOLEAN, result : {TRUE}]
           \cup [status : {200}, json : {FALSE}, success : {TRUE}, result : {TRUE}]
Pointings == UNION {{[kind |-> "record", zone |-> z, items |-> i, answer |-> a, cached |-> c] :
                     i \in Listings(z), a \in Answers, c \in {"r1", "r2", "gone"}} : z \in Zones}

ZoneNames == {<<"net", "example", "com">>, <<"example", "com">>, <<"other", "com">>, <<"com">>}
Lookups == [kind : {"zone"},
            domain : {<<"net", "example", "com">>, <<"a", "net", "example", "com">>, <<"com">>},
            zones : Upto([name : ZoneNames, status : {"active", "pending"}], 2)]

Peer1 == [name |-> "phone", public_key |-> "pk", address |-> "10.9.0.2", token_hash |-> "h1",
          created_at |-> 5, last_seen |-> {}]
Peer2 == [name |-> "laptop", public_key |-> "p2", address |-> "10.9.0.3", token_hash |-> "h2",
          created_at |-> 6, last_seen |-> {0}]
Code1 == [code |-> "AAAABBBB", issued_at |-> 1, expires_at |-> 4, used_at |-> {}]
Acme1 == [directory |-> "le", contact |-> {}, account_key_path |-> "/k", account_url |-> "u",
          challenge |-> "dns-01", issued_at |-> 1, renew_after |-> 3]
Tls1 == [acme |-> {}, cert_path |-> "/c", key_path |-> "/p", not_after |-> {}]
State1 == [domain |-> "d", subnet |-> "net", listen_port |-> 51820, api_port |-> 443,
           tls |-> Tls1, cloudflare |-> {}, peers |-> <<Peer1>>, codes |-> <<Code1>>,
           server |-> [private_key |-> "sk", public_key |-> "pk", address |-> "10.9.0.1"]]
State2 == [State1 EXCEPT !.tls = [@ EXCEPT !.acme = {Acme1}, !.not_after = {9}],
                         !.peers = <<Peer1, Peer2>>, !.codes = <<Code1, Code1>>,
                         !.cloudflare = {[zone_id |-> "z", record_id |-> {}, token_path |-> {"/t"}]}]
Named(names) == [n \in {names[i] : i \in DOMAIN names} |-> n]
Docs(kind) ==
  CASE kind = "state"  -> {State1, State2}
    [] kind = "legacy" -> {State1}
    [] kind = "device" -> {[api_port |-> 443, texts |-> Named(J!DeviceTexts)]}
    [] kind = "join"   -> {Named(J!JoinRequest)}
    [] kind = "joined" -> {Named(J!JoinResponse)}
    [] kind = "error"  -> {[code |-> c, message |-> "m"] : c \in J!ErrorCodes}
    [] kind = "peers"  -> [peers : {<<>>, <<Named(J!PeerInfo)>>}, hub : {{}, {Named(J!HubFields)}}]
Cells == {J!Null, J!Num(0), J!Num(1), J!Num(2), J!Num(3), J!Num(65535), J!Num(65536), J!Num(443),
          J!Txt("Phone"), J!Txt("x"), J!Txt("manual"), J!Txt("acme"), J!Txt("10.9.0.2"),
          J!Arr(<<>>), J!Obj(<<>>), [bool |-> TRUE]}
Documents ==
  UNION {UNION {{[kind |-> "document", of |-> k, doc |-> d, edited |-> e] :
                 e \in J!Edits(J!Encode(k, d), Cells) \cup {J!Encode(k, d)}} : d \in Docs(k)} :
         k \in {"state", "legacy", "device", "join", "joined", "error", "peers"}}

Scalars == {J!Null, J!Num(1), J!Txt("a"), [bool |-> FALSE]}
Nests(V) == {J!Obj(<<>>), J!Arr(<<>>)} \cup {J!Arr(<<v>>) : v \in V} \cup {J!Obj(<< <<"a", v>> >>) : v \in V}
Pairs(V) == {J!Obj(<< <<"a", v>>, <<"b", w>> >>) : v, w \in V} \cup {J!Arr(<<v, w>>) : v, w \in V}
Small == {J!Null, J!Arr(<<J!Num(1)>>), J!Obj(<< <<"a", J!Txt("a")>> >>), J!Arr(<<J!Arr(<<>>)>>)}
JsonValues == Scalars \cup Nests(Scalars) \cup Pairs(Scalars) \cup Nests(Small) \cup Pairs(Small)
              \cup {J!Arr(<<v>>) : v \in Nests(Small)}
Marks == {<<"{">>, <<"}">>, <<"[">>, <<"]">>, <<",">>, <<":">>, <<"str", "a">>, <<"str", "b">>,
          <<"int", 1>>, <<"float">>}
TextEdits(t) ==
  {t} \cup {[t EXCEPT ![i] = m] : i \in DOMAIN t, m \in Marks}
  \cup {SubSeq(t, 1, i - 1) \o SubSeq(t, i + 1, Len(t)) : i \in DOMAIN t}
  \cup {SubSeq(t, 1, i) \o <<m>> \o SubSeq(t, i + 1, Len(t)) : i \in 0 .. Len(t), m \in Marks}
Texts == UNION {{[kind |-> "text", value |-> v, text |-> t] : t \in TextEdits(J!Write(v))} :
                v \in JsonValues}
Chars == {0, 8, 9, 10, 13, 31, 34, 47, 92, 110, 117, 127, 55295, 57344, 65535, 65536, 1114111}
Units == {0, 65, 55295, 55296, 56319, 56320, 57343, 57344, 65535}
Strings == [kind : {"string"}, string : Upto(Chars, 1) \cup {<<c, 47>> : c \in Chars},
            units : Upto(Units, 2)]

Name == <<"acme", "hub">>
NameCells(layout, at) ==
  CASE layout = "full"    -> <<F!Label("acme"), F!Label("hub"), F!EndOfName>>
    [] layout = "case"    -> <<F!Label("ACME"), F!Label("Hub"), F!EndOfName>>
    [] layout = "pointer" -> <<F!Pointer(1)>>
    [] layout = "half"    -> <<F!Label("acme"), F!Pointer(2)>>
    [] layout = "other"   -> <<F!Label("other"), F!Pointer(2)>>
    [] layout = "loop"    -> <<F!Pointer(at)>>
RecordCells(r, at) ==
  NameCells(r.layout, at) \o <<F!Header(r.type, "IN", Len(r.texts))>>
  \o [i \in DOMAIN r.texts |-> F!String(r.texts[i])]
DnsRecords == [layout : {"full", "case", "pointer", "half", "other", "loop"}, type : {"TXT", "A"},
               texts : {<<"v">>, <<"w">>, <<"v", "w">>}]
Told == {<<>>} \cup {<<r>> : r \in DnsRecords}
        \cup {<<r, s>> : r \in {d \in DnsRecords : d.texts # <<"v", "w">>},
                         s \in {d \in DnsRecords : d.type = "TXT" /\ d.layout # "full"}}
CellsOf(records) ==
  LET question == NameCells("full", 1) \o <<F!Question>>
      first == IF records = <<>> THEN <<>> ELSE RecordCells(records[1], 5)
  IN question \o first
     \o (IF Len(records) < 2 THEN <<>> ELSE RecordCells(records[2], 5 + Len(first)))
Message(cells, records, id, rcode, truncated) ==
  [id |-> id, response |-> TRUE, rcode |-> rcode, truncated |-> truncated, questions |-> 1,
   answers |-> Len(records), cells |-> cells]
Stray == [from |-> "elsewhere", message |-> Message(CellsOf(<<>>), <<>>, 7, "ok", FALSE)]
Late == [from |-> "ns", message |-> Message(CellsOf(<<>>), <<>>, 6, "ok", FALSE)]
Datagram(message) == [from |-> "ns", message |-> message]
Replies ==
  UNION {UNION {
    LET whole == CellsOf(records)
        cells == SubSeq(whole, 1, cut)
        held  == {IF r.texts = <<"v", "w">> THEN "vw" ELSE r.texts[1] :
                  r \in {records[i] : i \in {j \in DOMAIN records : records[j].type = "TXT"
                                              /\ records[j].layout \notin {"other", "loop"}}}}
        loops == \E i \in DOMAIN records : records[i].layout = "loop"
    IN {[kind |-> "dns", value |-> v, values |-> held,
         datagrams |-> strays \o <<Datagram(Message(cells, records, 7, rcode, cut # Len(whole)))>>,
         whole |-> rcode = "ok" /\ cut = Len(whole) /\ ~loops /\ Len(strays) < 2] :
        v \in {"v", "vw"}, rcode \in {"ok", "servfail"}, strays \in {<<>>, <<Stray>>, <<Late, Stray>>}}
    : cut \in {Len(CellsOf(records))} \cup {c \in 4 .. Len(CellsOf(records)) : Len(records) = 1}}
    : records \in Told}

Addresses == {[kind |-> "addresses", addresses |-> a] :
              a \in Upto([how : {"hangs", "refuses", "answers"}, after : {0, 2, 3, 5}], 3) \ {<<>>}}

Dates == [kind : {"date"},
          tag : {"utc"}, text : [year : {0, 24, 49, 50, 99}, month : 0 .. 13, day : 0 .. 32,
            hour : {0, 23, 24}, minute : {59}, second : {60}, width : {13, 15}, digits : {TRUE}]]
         \cup [kind : {"date"}, tag : {"generalized"},
               text : [year : {1900, 1969, 1970, 2000, 2023, 2024, 2100, 2399}, month : 0 .. 13,
                 day : 0 .. 32, hour : {5}, minute : {0, 60}, second : {7}, width : {15},
                 digits : {TRUE}]]
NoText == [year |-> 0, month |-> 0, day |-> 0, hour |-> 0, minute |-> 0, second |-> 0,
           width |-> 0, digits |-> FALSE]
Utc(year) == [tag |-> "utc", inside |-> <<>>,
              text |-> [NoText EXCEPT !.year = year, !.month = 5, !.day = 6, !.width = 13, !.digits = TRUE]]
Element(tag, inside) == [tag |-> tag, inside |-> inside, text |-> NoText]
Fields == <<Element("version", <<>>), Element("integer", <<>>), Element("sequence", <<>>),
            Element("sequence", <<Element("set", <<>>)>>),
            Element("sequence", <<Utc(24), Utc(25)>>),
            Element("sequence", <<Element("set", <<>>)>>), Element("sequence", <<>>)>>
Certificate(fields) == Element("sequence", <<Element("sequence", fields)>>)
Damaged ==
  {SubSeq(Fields, 1, i - 1) \o SubSeq(Fields, i + 1, 7) : i \in 1 .. 7}
  \cup {SubSeq(Fields, 1, i) \o SubSeq(Fields, i, 7) : i \in 1 .. 7}
  \cup {[Fields EXCEPT ![i] = Fields[j]] : i, j \in 1 .. 7}
  \cup {[Fields EXCEPT ![i].tag = t] : i \in 1 .. 7, t \in {"set", "integer", "sequence", "version"}}
Damages == {[kind |-> "damage", certificate |-> Certificate(f)] : f \in Damaged}

Codes == UNION {{[kind |-> "code", modules |-> [size |-> n, dark |-> dark], available |-> a] :
                 dark \in SUBSET ((0 .. n - 1) \X (0 .. n - 1)), a \in {4, 5, 6, 7, 10, 12, 13, 14}} :
                n \in 1 .. 3}

Hub1(peers) == [address |-> "10.9.0.1", listen_port |-> "51820", private_key |-> "sk", peers |-> peers]
Configured ==
  UNION {LET lines == F!ServerConfig(Hub1(peers)) IN
         {[kind |-> "config", state |-> Hub1(peers), edited |-> e,
           profile |-> [address |-> "10.9.0.2", private_key |-> "dk", server_public_key |-> "pk",
                        server_endpoint |-> "d:51820", subnet |-> "net"]] :
          e \in {lines} \cup {[lines EXCEPT ![i].key = "ADDRESS"] : i \in {3}}
                \cup {lines \o <<F!Line(k, "x")>> : k \in F!QuickKeys}} :
         peers \in {<<>>, <<[name |-> "phone", public_key |-> "k1", address |-> "10.9.0.2"]>>,
                    <<[name |-> "phone", public_key |-> "k1", address |-> "10.9.0.2"],
                      [name |-> "laptop", public_key |-> "k2", address |-> "10.9.0.3"]>>}}
Dumps == {[kind |-> "dump", lines |-> l] :
          l \in Upto([public_key : {"", "k1", "k2"}, handshake : {-1, 0, 5}], 3) \ {<<>>}}

PathChars == {"a", "/", " ", "%", "$", ":", "\"", "\\", "'", "\n", "\r", "bell", "bytes", "&", "<"}
Paths == {start \o rest : start \in {<<"/", "a">>, <<"/">>, <<"a">>}, rest \in Upto(PathChars, 3)}
Minutes == {60 * n : n \in 1 .. 60} \cup {3600 * n : n \in 1 .. 25}
Schedules == [kind : {"path"}, path : Paths]
             \cup [kind : {"period"}, seconds : {0, 1, 30, 59, 61} \cup Minutes
                                               \cup {m + 30 : m \in Minutes}]

Edges == {0, 1, 2, 9, 10, 11, 15, 16, 31, 32, 63, 64, 99, 100, 101, 113, 127, 128, 168, 169, 170,
          172, 192, 198, 203, 223, 224, 239, 240, 254, 255}
Moments == {{}} \cup {{t} : t \in 0 .. 5}
Advices ==
  [kind : {"output"}, hub : {h \in A!Setups : A!Possible(h)}]
  \cup [kind : {"renewal"}, hub : A!Hubs, groups : Upto(C!GroupsOf("renew"), 2), env : BOOLEAN]
  \cup [kind : {"setup"}, groups : Upto(C!GroupsOf("init"), 3)]
  \cup [kind : {"export"}, groups : Upto(C!GroupsOf("join"), 3)]
  \cup [kind : {"wait"}, expiry : Moments, now : 0 .. 5, wait : Moments]
  \cup [kind : {"time"}, seconds : -2 .. 200 \cup {n * u + d : n \in 1 .. 61, u \in {60, 3600, 86400},
                                                     d \in -1 .. 1}]
  \cup [kind : {"timer"}, machine : {"systemd", "launchd", "neither"}, found : 0 .. 2]
  \cup [kind : {"gone"}, command : {"sync", "ls", "rm"},
         answer : {"unchanged", "rewrite", "unauthorized", "not found"}]
  \cup [kind : {"gone"}, command : {"sync"}, answer : {"dropped", "unverifiable"}]
  \cup [kind : {"gone"}, command : {"rm"}, answer : {"removed itself"}]
  \cup [kind : {"address"}, a : Edges, b : Edges, c : Edges \cap ({0, 1, 2, 3, 255} \cup 99 .. 114)]
  \cup [kind : {"table"}, rows : Upto([1 .. 4 -> {1, 8, 15}], 1) \cup
                                {<<r, s>> : r, s \in [1 .. 4 -> {3, 12}]}]

NameChars == {"a", "A", "I.", "han", "-", ".", " ", "/", "%"}
Words ==
  [kind : {"join code"}, text : Upto({"a", "A", "9", "-", "0"}, 6)]
  \cup [kind : {"drawn"}, characters : {2, 10, 16, 30, 32, 36, 62, 64}]
  \cup [kind : {"name"}, text : Upto(NameChars, 4)]
  \cup [kind : {"token"}, offered : Upto({"a", "1", "A"}, 3), kept : Upto({"a", "1"}, 3)]
  \cup [kind : {"challenge"}, token : Upto({"a", "-", ".", "/", "han"}, 4), thumbprint : Upto({"a", "."}, 3)]
  \cup [kind : {"dns name"}, text : Upto({"a", ".", "han"}, 7)]
  \cup [kind : {"endpoint"}, text : Upto({"a", ":", "0", "5", "9", "+", "\n"}, 5)]
  \cup [kind : {"request"}, port : {<<"443">>, <<"5">>}, body : Upto({"a", "han"}, 3)]

HomeDir == <<"/", "home", "u">>
People == [uid : {0, 1000}, home : {{}, {HomeDir}, {<<"here">>}, {P!Root}},
           xdg : {{}, {<<>>}, {<<"here">>}, {<<"/", "moved">>}}]
Passwords == {<<>>} \cup {[u \in {1000} |-> h] : h \in {{}, {HomeDir}, {<<"here">>}}}
Data == {{}, {<<>>}, {<<"/", "data">>}, {<<"here">>}}
PlaceInputs ==
  [kind : {"directory"}, person : People, passwd : Passwords, xdg : BOOLEAN, home : BOOLEAN]
  \cup [kind : {"files"}, platform : {"unix", "windows"}, program_data : Data, appdata : Data]
  \cup [kind : {"source"}, state : BOOLEAN, joined : BOOLEAN, person : People, passwd : Passwords,
         home : BOOLEAN]
  \cup [kind : {"list"},
         peers : Upto([name : {"n", "bad"}, address : {"a"}, public_key : {"k", "l"}], 2),
         dump : {{}} \cup {{d} : d \in Upto([public_key : {"k", "l"}, handshake : {{}, {5}}], 2)}]
  \cup [kind : {"removed"}, own : {"n", "m"}, requested : {"n", "m"}, status : {200, 401},
         peer : [name : {"n", "m", "bad"}, address : {"a", "bad"}, public_key : {"k"}]]

Inputs(part) ==
  CASE part = "commands"  -> Lines \cup Removals \cup Intervals
    [] part = "decisions" -> Syncs \cup Pointings \cup Lookups
    [] part = "documents" -> Documents \cup Texts \cup Strings
    [] part = "formats"   -> Replies \cup Addresses \cup Dates \cup Damages \cup Codes
                             \cup Configured \cup Dumps
    [] part = "schedules" -> Schedules
    [] part = "names"     -> Words
    [] part = "places"    -> PlaceInputs
    [] part = "advice"    -> {i \in Advices : i.kind = "timer" => i.found <= A!Files(i.machine)}

-----------------------------------------------------------------------------
(* Behaviours.                                                             *)

NoInput == [kind |-> "none"]

PartsInit ==
  /\ Init
  /\ RenewalInit
  /\ \/ which = "challenge" /\ input = NoInput /\ tls = Manual
     \/ which = "renewal" /\ input = NoInput /\ zone = {}
     \/ /\ zone = {} /\ tls = Manual
        /\ which \in {"commands", "decisions", "documents", "formats", "schedules", "advice", "names",
                  "places"}
        /\ input \in Inputs(which)

PartsNext ==
  \/ which = "challenge" /\ Next /\ UNCHANGED <<which, input, renewalVars>>
  \/ which = "renewal" /\ RenewalNext /\ UNCHANGED <<which, input, challengeVars>>

PartsSpec == PartsInit /\ [][PartsNext]_allVars /\ Fairness

\* Every command line, removal and interval means what was typed, every line
\* written for a scheduler what was named, and every line advised to a person can
\* be typed and does what it is advised for; whoever typed it, it finds its files.
Usual == <<"/", "a", "/", "b">>
CommandsHeard ==
  CASE input.kind = "line"     -> C!NothingIgnored(input.of, input.groups)
                                  /\ C!OrderFree(input.of, input.groups)
    [] input.kind = "rm"       -> C!EndIsEnd(input.before, input.after)
    [] input.kind = "interval" -> C!IntervalExact(input.count, input.seconds)
    [] input.kind = "path"     -> /\ U!UnitTrue(input.path, Usual, Usual)
                                  /\ U!UnitTrue(Usual, input.path, Usual)
                                  /\ U!UnitTrue(Usual, Usual, input.path)
                                  /\ U!PlistTrue(input.path, input.path)
                                  /\ U!CronTrue(input.path, Usual) /\ U!CronTrue(Usual, input.path)
    [] input.kind = "period"   -> U!PeriodTrue(input.seconds)
    [] input.kind = "output"   -> A!OutputComplete(input.hub)
    [] input.kind = "renewal"  -> A!RenewalAdvice(input.hub, input.groups, input.env)
    [] input.kind = "setup"    -> A!SetupAdvice(input.groups)
    [] input.kind = "export"   -> A!ExportHeard(input.groups)
    [] input.kind = "wait"     -> A!WaitTrue(input.expiry, input.now, input.wait)
    [] input.kind = "time"     -> A!TimeSaid(input.seconds)
    [] input.kind = "timer"    -> A!ScheduleAdvice(input.machine, input.found)
    [] input.kind = "gone"     -> A!RejoinAdvice(input.command, input.answer)
    [] input.kind = "address"  -> A!RoutableExact(input.a, input.b, input.c)
    [] input.kind = "table"    -> A!TableAligned(input.rows)
    [] input.kind = "directory" -> P!FoundAgain(input.person, input.passwd, input.xdg, input.home)
    [] input.kind = "files"    -> P!PlacesApart(input.platform, input.program_data, input.appdata)
    [] input.kind = "source"   -> P!SourceTrue(input.state, input.joined, input.person, input.passwd,
                                               input.home)
    [] input.kind = "list"     -> P!ListsAgree(input.peers, input.dump)
    [] input.kind = "removed"  -> P!RemovalTold(input.own, input.requested, input.status, input.peer)
    [] OTHER -> TRUE

\* Every answer of a hub or of Cloudflare leads where it may.
DecisionsSound ==
  CASE input.kind = "sync"   -> D!SyncSettles(input.config, input.call, input.described,
                                              input.hub, input.roster)
    [] input.kind = "record" -> D!RecordPointed(input.zone, input.answer, input.items, "here", "hub",
                                                input.cached)
    [] input.kind = "zone"   -> D!ZoneAnswers(input.domain, input.zones)
    [] OTHER -> TRUE

\* Everything written is read back, and nothing else is; a word that goes from one
\* machine or person to another means there what it meant here.
DocumentsHonest ==
  CASE input.kind = "document" -> J!DocumentHonest(input.of, input.doc, input.edited)
    [] input.kind = "text"     -> J!TextHonest(input.value, input.text)
    [] input.kind = "string"   -> J!StringHonest(input.string, input.units)
    [] input.kind = "join code" -> N!CodeTyped(input.text)
    [] input.kind = "drawn"     -> N!DrawnEvenly(input.characters)
    [] input.kind = "name"      -> N!NameKept(input.text) /\ N!SegmentKept(input.text)
    [] input.kind = "token"     -> N!TokenExact(input.offered, input.kept)
    [] input.kind = "challenge" -> N!ChallengeExact(input.token, input.thumbprint)
    [] input.kind = "dns name"  -> N!NameOnWire(input.text)
    [] input.kind = "endpoint"  -> N!EndpointOnly(input.text, 59)
    [] input.kind = "request"   -> N!RequestWhole(<<"a">>, input.port, input.body)
    [] OTHER -> TRUE

\* What other machines send, and what is drawn for a person, is read as it is.
FormatsHonest ==
  CASE input.kind = "dns"       -> F!AnswerHonest(input.datagrams, "ns", 7, Name, input.values,
                                                  input.value, input.whole)
    [] input.kind = "addresses" -> F!AddressesShare(input.addresses)
    [] input.kind = "date"      -> F!DateExact(input.tag, input.text)
    [] input.kind = "damage"    -> F!NoOtherDate(Certificate(Fields), input.certificate)
    [] input.kind = "code"      -> F!CodeReads(input.modules, input.available)
    [] input.kind = "config"    -> F!KernelGetsAll(input.state, input.edited)
                                   /\ F!ClientConfigKeeps(input.profile)
    [] input.kind = "dump"      -> F!DumpRead(input.lines)
    [] OTHER -> TRUE
=============================================================================
