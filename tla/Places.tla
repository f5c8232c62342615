--------------------------------- MODULE Places ---------------------------------
(***************************************************************************)
(* Where anago keeps its files, whose they are, and which of two sources   *)
(* `ls` and `rm` ask (paths.rs, ls.rs, the device's side of rm.rs).  A     *)
(* path is a sequence of names, "/" the first of an absolute one; what is  *)
(* not set is {}.                                                          *)
(***************************************************************************)
EXTENDS Integers, FiniteSets, Sequences, SequencesExt

Root == <<"/", "root">>

\* An environment variable counts where it is an absolute path.
Absolute(option) == {path \in option : path # <<>> /\ path[1] = "/"}

-----------------------------------------------------------------------------
(* The directory of a device.                                              *)

\* env: [xdg, home, sudo_uid, sudo_gid, appdata], passwd: the homes by uid.

ClientConfigDir(xdg, home) ==
  IF Absolute(xdg) # {} THEN {Append(path, "anago") : path \in Absolute(xdg)}
  ELSE {path \o <<".config", "anago">> : path \in Absolute(home)}

\* home_of: what the password database says, where it is a place.
HomeOf(passwd, uid) == IF uid \in DOMAIN passwd THEN Absolute(passwd[uid]) ELSE {}

\* invoking_user: who typed sudo; a text that is no number, -1 here, is nobody, and
\* root has nothing handed back.
InvokingUser(env, passwd) ==
  {[uid |-> u, gid |-> IF env.sudo_gid \subseteq Nat /\ env.sudo_gid # {}
                       THEN CHOOSE g \in env.sudo_gid : TRUE ELSE u,
    home |-> HomeOf(passwd, u)] : u \in {n \in env.sudo_uid : n \in Nat /\ n # 0}}

\* Mutation: the home that the process has is looked at first.
ClientConfigDirForHome(env, invoking) == ClientConfigDir(env.xdg, env.home)

\* client_config_dir_for: a directory that was moved, the home of whoever typed
\* sudo, and only then the home of the process.
ClientConfigDirFor(env, invoking) ==
  IF Absolute(env.xdg) # {} THEN ClientConfigDir(env.xdg, {})
  ELSE IF \E user \in invoking : user.home # {}
       THEN UNION {ClientConfigDir({}, user.home) : user \in invoking}
       ELSE ClientConfigDir({}, env.home)

\* client_config_dir_from_env, and client_config_dir_from_appdata.
ClientDir(platform, env, passwd) ==
  IF platform = "windows" THEN {Append(path, "anago") : path \in Absolute(env.appdata)}
  ELSE ClientConfigDirFor(env, InvokingUser(env, passwd))

\* sync's device_file; a schedule has the answer in its own line.
DeviceFile(platform, env, passwd, config) ==
  IF config # {} THEN config
  ELSE {Append(dir, "device.json") : dir \in ClientDir(platform, env, passwd)}

\* open_client_dir and the locks: whose the files are that a join makes.
Owners(env, passwd) == {<<user.uid, user.gid>> : user \in InvokingUser(env, passwd)}

\* What a person's commands see: their own session, and one through sudo, which
\* drops what it is not told to keep.
Session(person) ==
  [xdg |-> person.xdg, home |-> person.home, sudo_uid |-> {}, sudo_gid |-> {}, appdata |-> {}]
Sudo(person, keeps_xdg, keeps_home) ==
  [xdg |-> IF keeps_xdg THEN person.xdg ELSE {}, home |-> IF keeps_home THEN person.home ELSE {Root},
   sudo_uid |-> {person.uid}, sudo_gid |-> {person.uid}, appdata |-> {}]

\* Whoever has moved nothing, or takes along what was moved, finds with `ls`, `rm`
\* and `sync` what `sudo anago join` made, and owns it; a schedule that was
\* installed through sudo reads that very file; nothing is put where a person
\* happens to be, or in the home of root while somebody else's is known.
FoundAgain(person, passwd, keeps_xdg, keeps_home) ==
  LET sudo  == Sudo(person, keeps_xdg, keeps_home)
      made  == ClientDir("unix", sudo, passwd)
      later == ClientDir("unix", Session(person), passwd)
      baked == DeviceFile("unix", sudo, passwd, {})
      bare  == [xdg |-> {}, home |-> {}, sudo_uid |-> {}, sudo_gid |-> {}, appdata |-> {}]
  IN /\ Cardinality(made) <= 1 /\ made = Absolute(made)
     /\ baked # {} => DeviceFile("unix", bare, passwd, baked) = {Append(dir, "device.json") : dir \in made}
     /\ person.uid # 0 =>
          /\ HomeOf(passwd, person.uid) # {} =>
               \A dir \in made : SubSeq(dir, 1, 2) # Root
          /\ /\ person.home # {} /\ HomeOf(passwd, person.uid) = person.home
             /\ Absolute(person.xdg) = {} \/ keeps_xdg
             => made = later /\ made # {}
          /\ Owners(sudo, passwd) = {<<person.uid, person.uid>>}
     /\ person.uid = 0 => Owners(sudo, passwd) = {}
     /\ Owners(Session(person), passwd) = {}

-----------------------------------------------------------------------------
(* The files of a hub, and of a machine.                                   *)

\* default_server_root, default_wg_dir.
ServerRoot(platform, program_data) ==
  CASE platform # "windows" -> <<"/", "var", "lib", "anago">>
    [] platform = "windows" /\ program_data \in {{}, {<<>>}} -> <<"/", "ProgramData", "anago">>
    [] OTHER -> Append(CHOOSE path \in program_data : TRUE, "anago")
WgDir(platform, program_data) ==
  IF platform = "windows" THEN ServerRoot(platform, program_data) ELSE <<"/", "etc", "wireguard">>

\* Mutation: an issuance holds the lock of the state.
ServerPathsOneLock(root) ==
  {<<"state", Append(root, "state.json")>>, <<"state lock", Append(root, "state.lock")>>,
   <<"issue lock", Append(root, "state.lock")>>, <<"token", Append(root, "cf-token")>>,
   <<"certificate", root \o <<"tls", "fullchain.pem">> >>, <<"key", root \o <<"tls", "privkey.pem">> >>,
   <<"account", root \o <<"tls", "account.key">> >>}

\* ServerPaths, and what lies in the directory of a device.
ServerPaths(root) ==
  {<<"state", Append(root, "state.json")>>, <<"state lock", Append(root, "state.lock")>>,
   <<"issue lock", Append(root, "issue.lock")>>, <<"token", Append(root, "cf-token")>>,
   <<"certificate", root \o <<"tls", "fullchain.pem">> >>, <<"key", root \o <<"tls", "privkey.pem">> >>,
   <<"account", root \o <<"tls", "account.key">> >>}
ClientPaths(dir) ==
  {<<"device", Append(dir, "device.json")>>, <<"join lock", Append(dir, "join.lock")>>,
   <<"sync lock", Append(dir, "sync.lock")>>}

\* No two of the files of a machine are one, even where its directories are: no lock
\* is a file that a rename replaces, and no two things wait for one lock.
PlacesApart(platform, program_data, appdata) ==
  LET root == ServerRoot(platform, program_data)
      dirs == IF platform = "windows" THEN {Append(path, "anago") : path \in Absolute(appdata)}
              ELSE ClientConfigDir({}, {Root})
      files == ServerPaths(root) \cup UNION {ClientPaths(dir) : dir \in dirs}
               \cup {<<"conf", Append(WgDir(platform, program_data), "anago.conf")>>}
  IN \A f, g \in files : f[2] = g[2] => f = g

-----------------------------------------------------------------------------
(* Which source: `ls` and `rm`.                                            *)

\* choose_source.
ChooseSource(has_state, has_device_file) ==
  IF has_state THEN "server" ELSE IF has_device_file THEN "device" ELSE "not set up"

\* Mutation: the home is asked for first.
SourceOfHome(has_state, dirs, devices) ==
  IF dirs = {} THEN "no home" ELSE ChooseSource(has_state, dirs \cap devices # {})

\* run: only a machine that is no hub asks for a home.  devices: where there is a
\* device file.
SourceOf(has_state, dirs, devices) ==
  IF ~has_state /\ dirs = {} THEN "no home"
  ELSE ChooseSource(has_state, dirs \cap devices # {})

\* A hub lists and removes from its state, whatever its environment is; a device that
\* a person's join made is asked from that person's session.
SourceTrue(has_state, joined, person, passwd, keeps_home) ==
  LET made  == ClientDir("unix", Sudo(person, FALSE, keeps_home), passwd)
      later == ClientDir("unix", Session(person), passwd)
      source == SourceOf(has_state, later, IF joined THEN made ELSE {})
  IN /\ has_state => source = "server"
     /\ ~has_state /\ ~joined => source \in {"not set up", "no home"}
     /\ /\ ~has_state /\ joined /\ Absolute(person.xdg) = {}
        /\ person.home # {} /\ person.home = HomeOf(passwd, person.uid)
        => source = "device"

\* Mutation: what the kernel has no entry for was never seen.
RowsFromStateNever(peers, dump) ==
  [i \in DOMAIN peers |->
    LET entries == {e \in UNION {ToSet(d) : d \in dump} : e.public_key = peers[i].public_key}
    IN [peer |-> peers[i],
        seen |-> IF entries = {} \/ \E e \in entries : e.handshake = {} THEN "never" ELSE "at"]]

\* rows_from_state: the dump is {} where wg could not be asked.
RowsFromState(peers, dump) ==
  [i \in DOMAIN peers |->
    LET entries == {e \in UNION {ToSet(d) : d \in dump} : e.public_key = peers[i].public_key}
    IN [peer |-> peers[i],
        seen |-> IF entries = {} THEN "unknown"
                 ELSE IF \E e \in entries : e.handshake = {} THEN "never" ELSE "at"]]

\* rows_from_response: one bad field and there is no list.
RowsFromResponse(peers) ==
  IF \E i \in DOMAIN peers : "bad" \in {peers[i].name, peers[i].address, peers[i].public_key}
  THEN {} ELSE {[i \in DOMAIN peers |-> [peer |-> peers[i], seen |-> "unknown"]]}

\* format_handshake.
FormatHandshake(seen) == CASE seen = "unknown" -> "-" [] seen = "never" -> "never" [] OTHER -> "ago"

\* A device and its hub list the same devices in the same order; that one was never
\* here is said only where the kernel said so, of that very device.
ListsAgree(peers, dump) ==
  LET here  == RowsFromState(peers, dump)
      there == RowsFromResponse(peers)
      Said(i) == {e.handshake : e \in {f \in UNION {ToSet(d) : d \in dump} :
                                        f.public_key = peers[i].public_key}}
  IN /\ \A rows \in there : /\ [i \in DOMAIN rows |-> rows[i].peer] = [i \in DOMAIN here |-> here[i].peer]
                            /\ \A i \in DOMAIN rows : FormatHandshake(rows[i].seen) = "-"
     /\ \A i \in DOMAIN here :
          /\ FormatHandshake(here[i].seen) = "never" <=> {} \in Said(i)
          /\ FormatHandshake(here[i].seen) = "-" <=> Said(i) = {}

\* Mutation: the name is not compared.
CheckedPeerAny(peer, requested) == "bad" \notin {peer.name, peer.address, peer.public_key}

\* checked_peer.
CheckedPeer(peer, requested) ==
  peer.name = requested /\ "bad" \notin {peer.name, peer.address, peer.public_key}

\* remove_remotely and report: what is said of what a hub answered.
Removed(own, requested, status, peer) ==
  IF status # 200 \/ ~CheckedPeer(peer, requested) THEN {}
  ELSE {[name |-> peer.name, rejoin |-> requested = own]}

\* A removal is reported of the device that was asked for, and of no other; the way
\* back is told to whoever removed itself.
RemovalTold(own, requested, status, peer) ==
  \A told \in Removed(own, requested, status, peer) :
    /\ status = 200 /\ told.name = requested /\ peer.name = requested
    /\ told.rejoin <=> own = peer.name
=============================================================================
