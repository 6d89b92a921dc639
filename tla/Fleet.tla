------------------------------- MODULE Fleet -------------------------------
(***************************************************************************)
(* How machines join and leave: the hub's identity (src/src/prodeo/        *)
(* identity.py), the installers it builds (machines/installers.py) and     *)
(* their enrolment tokens (machines/enrollments.py), the handshake of Add  *)
(* Machine (machines/pairing.py), the catalogue of machines (machines/     *)
(* registry.py) and the commands forwarded to them (machines/gateway.py    *)
(* and the routes of api/app.py), over the nodes of packages/prodeo-ccan.  *)
(*                                                                         *)
(* Node names are taken to be distinct: a box stands for its node name.    *)
(* A certificate is the number of its mint; TLS lets a connection through  *)
(* when each side presents what the other one trusts.                      *)
(***************************************************************************)
EXTENDS Naturals, Sequences, FiniteSetsExt

CONSTANTS
  Boxes,          \* machines on which a CCAN may be installed
  Hub,            \* the hub's own node name
  MaxIdentities,  \* bound: identities the hub mints
  MaxInstallers,  \* bound: installers downloaded
  MaxWipes,       \* bound: times a box loses its data directory
  MaxHandshakes,  \* bound: handshakes under way at a time
  MaxFacts,       \* bound: machine.* events
  HubRestarts     \* bound: restarts of the hub

VARIABLES
  identityDir,  \* the hub's two files: the mint each is of, 0 when absent;
                \* and whether a mint is under way
  identity,     \* the identity the running hub has loaded, or 0
  tokens,       \* enrollments.json: per token minted, who has claimed it
  zips,         \* per installer: the certificate and the token it carries
  ccan,         \* per box: certificate and token of ccan.json, and which of
                \* the identities it has had is its own
  place,        \* the box that answers at an address
  answers,      \* responses to POST /ccan/v1/pair on their way to the hub
  machines,     \* _by_id
  machineLog,   \* the machine.* facts, in the order of publication
  enrolment,    \* history: the boxes ever registered with a token
  refused,      \* history: <<token, box>> refused by claim()
  hubRestarts

mint == <<identityDir, identity>>
issued == <<tokens, zips>>
network == <<ccan, place>>
fleet == <<machines, machineLog>>
history == <<enrolment, refused>>
fleetVars == <<mint, issued, network, answers, fleet, history, hubRestarts>>

Absent == 0
Torn == MaxIdentities + 1   \* a key file that exists and is no key
Unclaimed == "unclaimed"
Nowhere == "nowhere"    \* address of the hub's own machine
Token == 1 .. MaxInstallers
Addresses == Boxes      \* every box has an address of its own at first
Bare == [ca |-> Absent, token |-> Absent, own |-> 1]
Own(b) == <<b, ccan[b].own>> \* the certificate of a box
Loaded == identity # Absent

Machine(id, node, address, pin) ==
  [id |-> id, node |-> node, address |-> address, pin |-> pin, renamed |-> FALSE]

Added(m) == [type |-> "machine.added", machine |-> m]
Renamed(m) == [type |-> "machine.renamed", machine |-> m]
Removed(m) == [type |-> "machine.removed", machine |-> m]

OwnMachine == Machine(1, Hub, Nowhere, <<>>)

\* The first boot has registered the hub's machine: ensure_local().
Init ==
  /\ identityDir = [cert |-> Absent, key |-> Absent, minting |-> FALSE]
  /\ identity = Absent
  /\ tokens = <<>>
  /\ zips = <<>>
  /\ ccan = [b \in Boxes |-> Bare]
  /\ place = [a \in Addresses |-> a]
  /\ answers = {}
  /\ machines = {OwnMachine}
  /\ machineLog = <<Added(OwnMachine)>>
  /\ enrolment = [t \in Token |-> {}]
  /\ refused = {}
  /\ hubRestarts = 0

-----------------------------------------------------------------------------
(* The hub's identity, minted by the first call that needs it *)

\* ensure_identity() finds both files.
LoadIdentity ==
  /\ ~Loaded
  /\ identityDir.cert # Absent /\ identityDir.key # Absent
  /\ identity' = identityDir.cert
  /\ UNCHANGED <<identityDir, issued, network, answers, fleet, history, hubRestarts>>

\* ensure_identity() mints: the certificate is written first, ...
WriteCertificate ==
  /\ ~Loaded
  /\ ~identityDir.minting
  /\ identityDir.cert = Absent \/ identityDir.key = Absent
  /\ identityDir.cert < MaxIdentities
  /\ identityDir' = [identityDir EXCEPT !.cert = @ + 1, !.minting = TRUE]
  /\ UNCHANGED <<identity, issued, network, answers, fleet, history, hubRestarts>>

\* ... then its key.  A crash inside the write leaves a file that is no key.
WriteKey ==
  \E key \in {identityDir.cert, Torn} :
    /\ identityDir.minting
    /\ identityDir' = [identityDir EXCEPT !.key = key, !.minting = FALSE]
    /\ identity' = IF key = Torn THEN Absent ELSE key
    /\ UNCHANGED <<issued, network, answers, fleet, history, hubRestarts>>

-----------------------------------------------------------------------------
(* Installers and the boxes they are run on *)

\* Enrollments.mint()
Minted == Append(tokens, Unclaimed)

\* InstallerBuilder.build(): a token of its own and the hub's certificate.
Installer == [ca |-> identity, token |-> Len(Minted)]

Download ==
  /\ Loaded
  /\ Len(zips) < MaxInstallers
  /\ tokens' = Minted
  /\ zips' = Append(zips, Installer)
  /\ UNCHANGED <<mint, network, answers, fleet, history, hubRestarts>>

\* install.py on a box, and the CCAN's start: it overwrites ccan.json and, when
\* the data directory was wiped before, mints the node another identity.
Install(b) ==
  \E i \in DOMAIN zips, wiped \in BOOLEAN :
    /\ wiped => ccan[b].token # Absent /\ ccan[b].own <= MaxWipes
    /\ ccan' = [ccan EXCEPT ![b] =
         [ca |-> zips[i].ca, token |-> zips[i].token, own |-> IF wiped THEN @.own + 1 ELSE @.own]]
    /\ ccan' # ccan
    /\ UNCHANGED <<mint, issued, place, answers, fleet, history, hubRestarts>>

\* The network gives two boxes each other's address.
Readdress ==
  \E a, b \in Addresses :
    /\ a # b
    /\ place' = [place EXCEPT ![a] = place[b], ![b] = place[a]]
    /\ UNCHANGED <<mint, issued, ccan, answers, fleet, history, hubRestarts>>

\* Mutual TLS between the hub and a box: parent only.
KnowsHub(b) ==
  /\ Loaded
  /\ identityDir.key = identity
  /\ ccan[b].token # Absent
  /\ ccan[b].ca = identity

-----------------------------------------------------------------------------
(* Add Machine *)

\* pair() posts to an address; the node that listens there answers.
Answered(a) ==
  LET b == place[a]
  IN /\ KnowsHub(b)
     /\ Cardinality(answers) < MaxHandshakes
     /\ answers' = answers \cup
          {[address |-> a, node |-> b, pin |-> Own(b), token |-> ccan[b].token]}
     /\ UNCHANGED <<mint, issued, network, fleet, history, hubRestarts>>

\* get_by_node()
Known(node) == \E m \in machines : m.node = node

Publish(fact) ==
  /\ Len(machineLog) < MaxFacts
  /\ machineLog' = Append(machineLog, fact)

\* Defect: a token may be presented by anyone.
ClaimsUnbound(token, node) == TRUE

\* Defect: a token is good for one pairing.
ClaimsOnce(token, node) == tokens[token] = Unclaimed

\* Enrollments.claim()
Claims(token, node) == tokens[token] \in {Unclaimed, node}

\* The rest of pair() and of add_machine(): the token is claimed, and then the
\* machine registered unless its node is.  Nothing is awaited in between.
Join(r) ==
  LET m == Machine(Max({f.machine.id : f \in Range(machineLog)}) + 1, r.node, r.address, r.pin)
  IN /\ r \in answers
     /\ answers' = answers \ {r}
     /\ IF Claims(r.token, r.node)
          THEN /\ tokens' = [tokens EXCEPT ![r.token] = r.node]
               /\ enrolment' = [enrolment EXCEPT ![r.token] = @ \cup {r.node}]
               /\ UNCHANGED refused
               /\ IF Known(r.node)
                    THEN UNCHANGED <<fleet>>
                    ELSE machines' = machines \cup {m} /\ Publish(Added(m))
          ELSE /\ refused' = refused \cup {<<r.token, r.node>>}
               /\ UNCHANGED <<tokens, enrolment, fleet>>
     /\ UNCHANGED <<mint, zips, network, hubRestarts>>

\* rename()
RenameMachine(m) ==
  /\ m \in machines
  /\ ~m.renamed
  /\ machines' = (machines \ {m}) \cup {[m EXCEPT !.renamed = TRUE]}
  /\ Publish(Renamed(m))
  /\ UNCHANGED <<mint, issued, network, answers, history, hubRestarts>>

\* remove(): any but the hub's own.
RemoveMachine(m) ==
  /\ m \in machines
  /\ m.address # Nowhere
  /\ machines' = machines \ {m}
  /\ Publish(Removed(m))
  /\ UNCHANGED <<mint, issued, network, answers, history, hubRestarts>>

-----------------------------------------------------------------------------
(* Commands *)

\* Defect: whoever was installed for this hub is believed.
PinnedToHub(m, b) == TRUE

\* pinned_client() accepts one certificate, the one recorded at pairing.
Pinned(m, b) == Own(b) = m.pin

\* NodeGateway.forward(): the machine is looked up, and the box at its address
\* gets the call if the connection comes about; otherwise it is an error.
Forwarded(m, b) ==
  /\ place[m.address] = b
  /\ KnowsHub(b)
  /\ Pinned(m, b)

\* The routes of a session's commands: those of another node are forwarded.
Obeys(m, b) ==
  /\ m.address # Nowhere
  /\ Forwarded(m, b)

-----------------------------------------------------------------------------
(* A crash of the hub *)

Apply(known, fact) ==
  CASE fact.type = "machine.added" -> known \cup {fact.machine}
    [] fact.type = "machine.renamed" ->
         {IF m.id = fact.machine.id THEN [m EXCEPT !.renamed = TRUE] ELSE m : m \in known}
    [] fact.type = "machine.removed" -> {m \in known : m.id # fact.machine.id}

\* rebuild(), which precedes ensure_local(): fact after fact.
Rebuilt(facts) ==
  LET known[n \in 0 .. Len(facts)] == IF n = 0 THEN {} ELSE Apply(known[n - 1], facts[n])
  IN known[Len(facts)]

\* The hub crashes and comes up again: the last fact may not have been
\* recorded; the claim before it is in its file.
Restart ==
  \E lost \in 0 .. 1 :
    LET facts == SubSeq(machineLog, 1, Len(machineLog) - lost)
    IN /\ hubRestarts < HubRestarts
       /\ hubRestarts' = hubRestarts + 1
       /\ Len(facts) > 0
       /\ machineLog' = facts
       /\ machines' = Rebuilt(facts)
       /\ identity' = Absent
       /\ identityDir' = [identityDir EXCEPT !.minting = FALSE]
       /\ answers' = {}
       /\ UNCHANGED <<issued, network, history>>

-----------------------------------------------------------------------------

Next ==
  \/ LoadIdentity \/ WriteCertificate \/ WriteKey
  \/ Download
  \/ \E b \in Boxes : Install(b)
  \/ Readdress
  \/ \E a \in Addresses : Answered(a)
  \/ \E r \in answers : Join(r)
  \/ \E m \in machines : RenameMachine(m) \/ RemoveMachine(m)
  \/ Restart

Spec == Init /\ [][Next]_fleetVars

-----------------------------------------------------------------------------

\* No box has the name that stands for nobody, or for no address.
FleetBounds ==
  /\ {MaxIdentities, MaxInstallers, MaxWipes} \subseteq Nat /\ MaxFacts \in Nat \ {0}
  /\ Unclaimed \notin Boxes /\ Nowhere \notin Boxes

\* Type invariant of the identity, the tokens, the boxes and the catalogue.
TypeOK ==
  /\ identityDir \in [cert : 0 .. MaxIdentities, key : 0 .. Torn, minting : BOOLEAN]
  /\ identity \in 0 .. MaxIdentities
  /\ Len(tokens) = Len(zips) /\ Range(tokens) \subseteq Boxes \cup {Unclaimed}
  /\ \A b \in Boxes : ccan[b].token \in 0 .. Len(zips) /\ ccan[b].own \in 1 .. MaxWipes + 1
  /\ IsInjective(place)
  /\ \A m \in machines : m.node \in Boxes \cup {Hub}
  /\ Len(machineLog) <= MaxFacts
  /\ OwnMachine.id \in {m.id : m \in machines}

\* "A token binds to the first node that claims it: re-pairing the same
\* machine keeps working, while a token lifted from one machine cannot enroll
\* a second one" (enrollments.py:10), whatever was removed, reinstalled or
\* lost in a crash in between.
TokenBindsToItsFirst ==
  /\ \A t \in DOMAIN enrolment : Cardinality(enrolment[t]) <= 1
  /\ \A r \in refused : r[2] \notin enrolment[r[1]]

\* "Verifies the peer against the certificate recorded at pairing"
\* (pairing.py:131): a command for a node is obeyed by the box of that node,
\* whoever answers at its address by now.
CommandsReachTheirNode ==
  \A m \in machines, b \in Boxes : Obeys(m, b) => b = m.node

=============================================================================
