-------------------------------- MODULE Formats --------------------------------
(***************************************************************************)
(* What anago reads from machines that are not its own, and what it draws  *)
(* for a person: DNS answers (core dnswire.rs, dnsprobe.rs), a certificate *)
(* date (core x509.rs), an HTTP response and the addresses of its host     *)
(* (client.rs), WireGuard's config and dump (core wgconf.rs, wg.rs) and a  *)
(* QR code on a terminal (core qr.rs).                                     *)
(*                                                                         *)
(* A message is a sequence of cells, one for each field of it; what may be *)
(* refused is a set, {} for an Err and {x} for Ok(x).                      *)
(***************************************************************************)
EXTENDS Integers, Sequences, SequencesExt, FiniteSetsExt

CONSTANTS
  MaxJumps,             \* MAX_JUMPS: pointers one name may follow
  MaxReads,             \* datagrams read while waiting for an answer
  Quiet,                \* QUIET: light modules around a code
  ConnectTimeout        \* what all addresses of a host may take together

FormatsAssumption ==
  /\ MaxJumps \in Nat
  /\ MaxReads \in Nat
  /\ Quiet \in Nat
  /\ ConnectTimeout \in Nat \ {0}

-----------------------------------------------------------------------------
(* DNS.  A cell of a message is a label, the end of a name, a pointer to   *)
(* the position of a cell, what follows the name of a question or record,  *)
(* or a character string of TXT data.                                      *)

Label(text) == [cell |-> "label", text |-> text]
EndOfName == [cell |-> "end"]
Pointer(at) == [cell |-> "pointer", at |-> at]
Question == [cell |-> "question"]
Header(kind, class, count) == [cell |-> "record", kind |-> kind, class |-> class, count |-> count]
String(text) == [cell |-> "string", text |-> text]

\* fold: case does not tell names apart.
Fold(name) == [i \in DOMAIN name |->
  CASE name[i] = "ACME" -> "acme" [] name[i] = "Hub" -> "hub" [] OTHER -> name[i]]

\* read_name: the labels, and where the name ended in the stream, which is after
\* the first pointer.
RECURSIVE NameFrom(_, _, _, _, _)
NameFrom(cells, at, name, after, jumps) ==
  IF at \notin DOMAIN cells THEN {}
  ELSE LET c == cells[at] IN
    CASE c.cell = "end"     -> {<<name, IF after = 0 THEN at + 1 ELSE after>>}
      [] c.cell = "label"   -> NameFrom(cells, at + 1, Append(name, c.text), after, jumps)
      [] c.cell = "pointer" ->
           IF jumps = MaxJumps THEN {}
           ELSE NameFrom(cells, c.at, name, IF after = 0 THEN at + 1 ELSE after, jumps + 1)
      [] OTHER -> {}

ReadName(cells, at) == NameFrom(cells, at, <<>>, 0, 0)

\* Past the questions.
RECURSIVE SkipQuestions(_, _, _)
SkipQuestions(cells, at, count) ==
  IF count = 0 THEN {at}
  ELSE UNION {IF read[2] \in DOMAIN cells THEN SkipQuestions(cells, read[2] + 1, count - 1) ELSE {}
              : read \in ReadName(cells, at)}

\* Mutation: any TXT record of the message answers.
IsAnswerOfAny(owner, header, name) == header.kind = "TXT" /\ header.class = "IN"

\* A TXT record of the name asked about.
IsAnswer(owner, header, name) ==
  header.kind = "TXT" /\ header.class = "IN" /\ Fold(owner) = Fold(name)

\* The records: what a cut message does not hold is not there.  The character
\* strings of one value are joined.
RECURSIVE Values(_, _, _, _, _)
Values(cells, at, count, name, sofar) ==
  IF count = 0 THEN {sofar}
  ELSE UNION {
    LET header == read[2]
        last   == header + cells[header].count IN
    IF header \notin DOMAIN cells \/ last > Len(cells) THEN {sofar}
    ELSE Values(cells, last + 1, count - 1, name,
           IF IsAnswer(read[1], cells[header], name)
           THEN Append(sofar, FoldLeft(LAMBDA text, c : text \o c.text, "",
                                       SubSeq(cells, header + 1, last)))
           ELSE sofar)
    : read \in ReadName(cells, at)}

\* read_txt.  The error is "malformed", or "other" for another question's answer.
ReadTxt(message, id, name) ==
  IF message.id # id THEN [error |-> "other"]
  ELSE LET values == UNION {Values(message.cells, at, message.answers, name, <<>>) :
                            at \in SkipQuestions(message.cells, 1, message.questions)}
       IN IF ~message.response \/ values = {} THEN [error |-> "malformed"]
          ELSE [rcode |-> message.rcode, truncated |-> message.truncated,
                values |-> CHOOSE v \in values : TRUE]

Failed(reply) == "error" \in DOMAIN reply

\* Mutation: an answer that did not fit counts as one without the value.
JudgeWhole(reply, value) ==
  CASE reply.rcode \notin {"ok", "nxdomain"} -> "silent"
    [] value \in ToSet(reply.values) -> "serving"
    [] OTHER -> "not_yet"

\* dnsprobe::read.
Judge(reply, value) ==
  CASE reply.rcode \notin {"ok", "nxdomain"} -> "silent"
    [] reply.rcode \in {"ok", "nxdomain"} /\ value \in ToSet(reply.values) -> "serving"
    [] OTHER -> IF reply.truncated THEN "silent" ELSE "not_yet"

\* ask_address and ask: the first few datagrams, without those from elsewhere
\* and those that answer another question.
Ask(datagrams, from, id, name, value) ==
  LET read == SelectSeq([i \in 1 .. Min({MaxReads, Len(datagrams)}) |->
                           IF datagrams[i].from # from THEN [error |-> "other"]
                           ELSE ReadTxt(datagrams[i].message, id, name)],
                        LAMBDA r : r # [error |-> "other"])
  IN IF read = <<>> \/ Failed(read[1]) THEN "silent" ELSE Judge(read[1], value)

\* What a server says is not turned into anything else.  It holds `values` for
\* the name and sends them with whatever else it sends, cut or not; `whole` when
\* its answer is among the datagrams read, complete and well formed.
AnswerHonest(datagrams, from, id, name, values, value, whole) ==
  LET answer == Ask(datagrams, from, id, name, value) IN
  /\ answer = "serving" => value \in values
  /\ answer = "not_yet" => value \notin values
  /\ whole => answer = IF value \in values THEN "serving" ELSE "not_yet"

-----------------------------------------------------------------------------
(* The addresses of a host, tried within one budget.                       *)

\* Mutation: the first address may use up what there is.
AttemptBudgetAll(remaining, left) == remaining

\* attempt_budget.
AttemptBudget(remaining, left) == IF left <= 1 THEN remaining ELSE remaining \div left

\* connect_any, and query of dnsprobe: an address answers after a time, or
\* refuses after a time, or hangs.  The result is the address and the time gone.
RECURSIVE Connect(_, _, _)
Connect(addresses, index, gone) ==
  IF index > Len(addresses) THEN <<0, gone>>
  ELSE LET budget == AttemptBudget(ConnectTimeout - gone, Len(addresses) - index + 1)
           a      == addresses[index]
       IN IF budget = 0 THEN <<0, gone>>
          ELSE IF a.how = "hangs" \/ a.after > budget THEN Connect(addresses, index + 1, gone + budget)
          ELSE IF a.how = "refuses" THEN Connect(addresses, index + 1, gone + a.after)
          ELSE <<index, gone + a.after>>

\* An address that answers within its even share of the whole budget is reached,
\* whatever the others do, and nothing takes longer than the budget.
AddressesShare(addresses) ==
  LET result == Connect(addresses, 1, 0) IN
  /\ result[2] <= ConnectTimeout
  /\ (\E i \in DOMAIN addresses :
        addresses[i].how = "answers" /\ addresses[i].after <= ConnectTimeout \div Len(addresses))
     => result[1] # 0

-----------------------------------------------------------------------------
(* notAfter of a certificate.  An element is its tag with its elements, or *)
(* with the text of a time.                                                *)

IsLeap(year) == year % 4 = 0 /\ (year % 100 # 0 \/ year % 400 = 0)

DaysInMonth(year, month) ==
  CASE month \in {1, 3, 5, 7, 8, 10, 12} -> 31
    [] month \in {4, 6, 9, 11}           -> 30
    [] month = 2                         -> IF IsLeap(year) THEN 29 ELSE 28
    [] OTHER                             -> 0

\* days_from_civil; Rust divides towards zero, and all the dividends here are
\* positive.
DaysFromCivil(year, month, day) ==
  LET marchYear == IF month <= 2 THEN year - 1 ELSE year
      era       == (IF marchYear >= 0 THEN marchYear ELSE marchYear - 399) \div 400
      ofEra     == marchYear - era * 400
      ofYear    == (153 * (IF month > 2 THEN month - 3 ELSE month + 9) + 2) \div 5 + day - 1
  IN era * 146097 + (ofEra * 365 + (ofEra \div 4) - (ofEra \div 100) + ofYear) - 719468

\* Mutation: every month has 31 days.
ValidDayOf31(year, month, day) == month \in 1 .. 12 /\ day \in 1 .. 31

ValidDay(year, month, day) == month \in 1 .. 12 /\ day \in 1 .. DaysInMonth(year, month)

\* time: a day and a second of it.  `text.digits` is FALSE when something else
\* than digits and a final Z is there.
Time(tag, text) ==
  LET year == IF tag = "utc" THEN (IF text.year >= 50 THEN 1900 ELSE 2000) + text.year ELSE text.year
  IN IF /\ tag \in {"utc", "generalized"}
        /\ text.width = (IF tag = "utc" THEN 13 ELSE 15)
        /\ text.digits
        /\ ValidDay(year, text.month, text.day)
        /\ text.hour <= 23 /\ text.minute <= 59 /\ text.second <= 60
     THEN {<<DaysFromCivil(year, text.month, text.day),
             text.hour * 3600 + text.minute * 60 + text.second>>}
     ELSE {}

\* Der::next and ::expect: the elements from the n-th on, if that one has the tag.
Expect(elements, n, tags) == {e \in {elements[i] : i \in DOMAIN elements \cap {n}} : e.tag \in tags}

\* The second time of the validity, found by its place among the fields.
NotAfterOf(fields) ==
  LET n == IF fields # <<>> /\ fields[1].tag = "version" THEN 1 ELSE 0
  IN IF \/ Expect(fields, n + 1, {"integer"}) = {}
        \/ \E i \in {2, 3} : Expect(fields, n + i, {"sequence"}) = {}
     THEN {}
     ELSE UNION {UNION {Time(t.tag, t.text) : t \in Expect(v.inside, 2, {"utc", "generalized"})} :
                 v \in Expect(fields, n + 4, {"sequence"})}

\* not_after.
NotAfter(certificate) ==
  UNION {NotAfterOf(tbs.inside) :
         tbs \in UNION {Expect(c.inside, 1, {"sequence"}) :
                        c \in Expect(<<certificate>>, 1, {"sequence"})}}

\* The days counted one year and one month after the other, from 1970 on.
RECURSIVE DaysBefore(_)
DaysBefore(year) ==
  IF year = 1970 THEN 0
  ELSE IF year > 1970 THEN DaysBefore(year - 1) + (IF IsLeap(year - 1) THEN 366 ELSE 365)
  ELSE DaysBefore(year + 1) - (IF IsLeap(year) THEN 366 ELSE 365)

Counted(year, month, day) ==
  DaysBefore(year) + FoldSet(LAMBDA m, n : DaysInMonth(year, m) + n, 0, 1 .. month - 1) + day - 1

\* A date is read as the day it names, and no day that does not exist is read at
\* all.  `year` is the four digits of the text, or its two.
DateExact(tag, text) ==
  LET year == IF tag = "utc" THEN (IF text.year < 50 THEN 2000 ELSE 1900) + text.year ELSE text.year
  IN Time(tag, text) # {} =>
       Time(tag, text) = {<<Counted(year, text.month, text.day),
                            text.hour * 3600 + text.minute * 60 + text.second>>}
       /\ text.day <= DaysInMonth(year, text.month)

\* A damaged certificate has no date rather than another one.
NoOtherDate(certificate, damaged) == NotAfter(damaged) \in {{}, NotAfter(certificate)}

-----------------------------------------------------------------------------
(* A QR code.  `modules` is its size and the places of its dark modules;   *)
(* a picture is lines of characters.                                       *)

IsDark(modules, x, y) == x \in 0 .. modules.size - 1 /\ y \in 0 .. modules.size - 1
                         /\ <<x, y>> \in modules.dark

Span(size) == size + 2 * Quiet

\* columns.
Columns(size, blocks) == IF blocks = "full" THEN 2 * Span(size) ELSE Span(size)

\* fit: the wide style first.
Fit(size, available) ==
  IF Columns(size, "full") <= available THEN "full"
  ELSE IF Columns(size, "half") <= available THEN "half" ELSE "none"

\* Mutation: an odd last row is left out.
RowsDown(size, blocks) == IF blocks = "full" THEN Span(size) ELSE Span(size) \div 2
\* rows.
Rows(size, blocks) == IF blocks = "full" THEN Span(size) ELSE (Span(size) + 1) \div 2

\* draw_with.
Picture(modules, blocks) ==
  LET dark(x, y) == x >= Quiet /\ y >= Quiet /\ IsDark(modules, x - Quiet, y - Quiet) IN
  [row \in 1 .. Rows(modules.size, blocks) |->
     [column \in 1 .. Columns(modules.size, blocks) |->
        IF blocks = "full"
        THEN IF dark((column - 1) \div 2, row - 1) THEN "both" ELSE "blank"
        ELSE LET top    == dark(column - 1, 2 * (row - 1))
                 bottom == dark(column - 1, 2 * (row - 1) + 1)
             IN IF top /\ bottom THEN "both" ELSE IF top THEN "upper"
                ELSE IF bottom THEN "lower" ELSE "blank"]]

\* What a phone sees at a place of the picture: beyond it, nothing light.
Seen(picture, blocks, x, y) ==
  LET row    == IF blocks = "full" THEN y + 1 ELSE (y \div 2) + 1
      column == IF blocks = "full" THEN 2 * x + 1 ELSE x + 1
  IN IF row \notin DOMAIN picture \/ column \notin DOMAIN picture[row] THEN "beyond"
     ELSE IF picture[row][column]
             \in {"both", IF blocks = "full" \/ y % 2 = 0 THEN "upper" ELSE "lower"}
          THEN "dark" ELSE "light"

\* A code is drawn whole, with its quiet zone, and no line of it wraps; it is
\* refused only when even the narrow style would.
CodeReads(modules, available) ==
  LET blocks  == Fit(modules.size, available)
      picture == Picture(modules, blocks)
  IN IF blocks = "none" THEN Span(modules.size) > available
     ELSE /\ \A x, y \in 0 .. Span(modules.size) - 1 :
               Seen(picture, blocks, x, y) =
                 IF <<x - Quiet, y - Quiet>> \in modules.dark THEN "dark" ELSE "light"
          /\ \A row \in DOMAIN picture : Len(picture[row]) <= available

-----------------------------------------------------------------------------
(* WireGuard's config and its dump.  A line is a key and a value; a section *)
(* header or a comment is a key without one.                               *)

Line(key, value) == [key |-> key, value |-> value]
None == "none"
QuickKeys == {"Address", "DNS", "MTU", "Table", "PreUp", "PostUp", "PreDown", "PostDown",
                     "SaveConfig"}

\* eq_ignore_ascii_case, for a spelling a person may have changed.
SameKey(key, name) == key = name \/ (key = "privatekey" /\ name = "PrivateKey")
                                 \/ (key = "ADDRESS" /\ name = "Address")

\* Mutation: the hub routes the whole network to every device.
AllowedWhole(state, peer) == "subnet"
AllowedIPs(state, peer) == peer.address

\* server_config.
ServerConfig(state) ==
  <<Line("[Interface]", None), Line("# anago server", None), Line("Address", state.address),
    Line("ListenPort", state.listen_port), Line("PrivateKey", state.private_key)>>
  \o FlattenSeq([i \in DOMAIN state.peers |->
       <<Line("", None), Line("[Peer]", None), Line("# " \o state.peers[i].name, None),
         Line("PublicKey", state.peers[i].public_key),
         Line("AllowedIPs", AllowedIPs(state, state.peers[i]))>>])

\* render_client.
RenderClient(profile, comments) ==
  LET note(text) == IF comments THEN <<Line(text, None)>> ELSE <<>> IN
  <<Line("[Interface]", None)>> \o note("# anago")
  \o <<Line("Address", profile.address), Line("PrivateKey", profile.private_key),
       Line("", None), Line("[Peer]", None)>> \o note("# anago server")
  \o <<Line("PublicKey", profile.server_public_key), Line("Endpoint", profile.server_endpoint),
       Line("AllowedIPs", profile.subnet), Line("PersistentKeepalive", "25")>>

\* Mutation: only the spelling anago writes is recognised.
StripExact(lines) == SelectSeq(lines, LAMBDA l : l.key \notin QuickKeys)

\* strip_quick_keys.
StripQuickKeys(lines) == SelectSeq(lines, LAMBDA l : ~\E q \in QuickKeys : SameKey(l.key, q))

\* private_key_line: the first line of that key which has a value.
PrivateKeyLine(lines) ==
  LET found == SelectSeq(lines, LAMBDA l : SameKey(l.key, "PrivateKey") /\ l.value # None)
  IN IF found = <<>> THEN {} ELSE {found[1].value}

\* parse_dump: fields of a line are its key and its handshake, -1 when the line
\* does not fit.
ParseDump(lines) ==
  LET peers == SelectSeq(Tail(lines), LAMBDA l : l.handshake # -1 /\ l.public_key # "")
  IN [i \in DOMAIN peers |-> [public_key |-> peers[i].public_key,
        last_handshake |-> IF peers[i].handshake > 0 THEN {peers[i].handshake} ELSE {}]]

\* What wg makes of a config: of every section the set of its keys and values.
Sections(lines) ==
  LET starts == {i \in DOMAIN lines : lines[i].key \in {"[Interface]", "[Peer]"}}
      until(i) == Min({Len(lines) + 1} \cup {j \in starts : j > i})
  IN {<<lines[i].key, {<<lines[j].key, lines[j].value>> :
        j \in {k \in i + 1 .. until(i) - 1 : lines[k].value # None}}>> : i \in starts}

\* The kernel gets every device with its own address and nothing of another, and
\* plain wg meets no key it does not know, whatever case a person has given it.
KernelGetsAll(state, edited) ==
  /\ Sections(StripQuickKeys(ServerConfig(state))) =
       {<<"[Interface]", {<<"ListenPort", state.listen_port>>, <<"PrivateKey", state.private_key>>}>>}
       \cup {<<"[Peer]", {<<"PublicKey", state.peers[i].public_key>>,
                          <<"AllowedIPs", state.peers[i].address>>}>> : i \in DOMAIN state.peers}
  /\ \A section \in Sections(StripQuickKeys(edited)) :
       \A f \in section[2] : f[1] \notin QuickKeys \cup {"ADDRESS"}

\* The device's key is found again in what was written, a phone's config tells
\* wg what the device's tells it, and nothing but the key is the device's.
ClientConfigKeeps(profile) ==
  /\ PrivateKeyLine(RenderClient(profile, TRUE)) = {profile.private_key}
  /\ Sections(RenderClient(profile, TRUE)) = Sections(RenderClient(profile, FALSE))

\* Every peer wg reports is in the list with its handshake; no line that does
\* not fit is taken for one.
DumpRead(lines) ==
  /\ \A i \in 2 .. Len(lines) : lines[i].handshake > 0 /\ lines[i].public_key # "" =>
       [public_key |-> lines[i].public_key, last_handshake |-> {lines[i].handshake}]
         \in ToSet(ParseDump(lines))
  /\ \A p \in ToSet(ParseDump(lines)) : \E i \in 2 .. Len(lines) :
       lines[i].public_key = p.public_key /\ p.public_key # ""
       /\ lines[i].handshake = (IF p.last_handshake = {} THEN 0 ELSE Max(p.last_handshake))

=============================================================================
