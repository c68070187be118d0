--------------------------- MODULE AdmissionProofs ---------------------------
(***************************************************************************)
(* Proofs about who the server lets in: the users, keys and links its      *)
(* commands provide (Provision), for any number of users and runs, and the *)
(* connections it tells from those of its users (Camouflage), for any      *)
(* data, padding, width of a length, number of probes and size of reads.   *)
(***************************************************************************)
EXTENDS Provision, Camouflage, SliceLemmas

(***************************************************************************)
(* The commands.  Whatever overlaps, a user the operator took out is on no *)
(* list, in the file or with a run that has yet to write it, but for those *)
(* a run recalls.  As long as no two runs overlap, the configuration in    *)
(* the file -- and the one a run is about to write -- fits the links that  *)
(* were saved.                                                             *)
(***************************************************************************)

(* Configurations, the places of a run, and the files that hold a link. *)
Configs == [key : Users, users : SUBSET Users]
Places == Writing \cup {"new", "loaded", "done"}
LinkFiles == Users \cup {"import"}

(* A run with a list it has yet to write; one whose user is on no other.     *)
Lists(u) == pc[u] \in TlsFiles \cup {"config"}
Unwritten(u) == Lists(u) \/ pc[u] \in {"new", "loaded"}

(* Every variable has its type. *)
ProvTypes ==
  /\ files = [f \in FileNames |-> files[f]]
  /\ pc \in [Users -> Places]
  /\ open \in [Users -> BOOLEAN]
  /\ kind \in [Users -> {"adduser", "setup", "init"}]
  /\ key \in [Users -> Users]
  /\ body = [u \in Users |-> body[u]]
  /\ unlisted \in SUBSET Users /\ revoked \in SUBSET Users
  /\ files["config"] \in Configs \cup {Absent, Empty}
  /\ \A u \in Users : Lists(u) => body[u] \in Configs \cup {Empty}
  /\ \A u \in Users : pc[u] = "loaded" => files["config"] # Absent

(* Of a list: nobody on it was taken out, but those a run recalled.          *)
Purged(c) == c.users \cap revoked \subseteq recalled

(* Whatever overlaps.  A user whose run has not written the list yet is on   *)
(* none but the run's own.                                                   *)
ListsPurged ==
  /\ Whole("config") => Purged(files["config"])
  /\ \A v \in Users : Lists(v) /\ body[v] # Empty => Purged(body[v])
OwnOnly ==
  \A u \in Users : Unwritten(u) =>
    /\ u \notin revoked
    /\ Whole("config") => u \notin files["config"].users
    /\ \A v \in Users : Lists(v) /\ body[v] # Empty /\ u \in body[v].users => u = v
ListInv == ListsPurged /\ OwnOnly /\ RevokedStaysOut

(* A configuration that may stand in the file, given the files there are, the*)
(* revoked users and the unlisted ones: whoever holds a saved link is let in *)
(* by it or was revoked, or never listed.                                    *)
LetsIn(c, l) == l.pub = c.key /\ l.upk = l.sid /\ l.sid \in c.users
Saved(fs, f) == fs[f] \notin {Absent, Empty}
Fit(c, fs, out, unknown) ==
  /\ c \in Configs
  /\ \A f \in LinkFiles : Saved(fs, f) => fs[f].sid \in out \cup unknown \/ LetsIn(c, fs[f])
(* A configuration fits what is there now. *)
Fits(c) == Fit(c, files, revoked, unlisted)

(* What run u says of its user in a link is what configuration c says.       *)
Knows(u, c) == key[u] = c.key /\ u \in c.users \cup unlisted

(* A run that is under way writes a configuration that fits and a link it    *)
(* lets in.  Should the write fail, the configuration there is has its key.  *)
RunFits(u) ==
  /\ pc[u] = "loaded" => Whole("config")
  /\ pc[u] = "loaded" \/ Lists(u) => (Whole("config") => key[u] = files["config"].key)
  /\ Lists(u) => Fits(body[u]) /\ Knows(u, body[u])
  /\ pc[u] \in {"import", "link"} =>
        /\ files["config"] = Absent => u \in unlisted
        /\ Whole("config") => Knows(u, files["config"])

(* As long as there is no configuration only the unlisted have a link.       *)
Fresh ==
  files["config"] = Absent =>
    \A f \in LinkFiles : Saved(files, f) => files[f].sid \in unlisted

(* What holds while nothing has overlapped: one run at a time.               *)
InTurn ==
  /\ \A u, v \in Users : Running(u) /\ Running(v) => u = v
  /\ \A u \in Users : Running(u) => RunFits(u)
  /\ \A u \in Users : pc[u] = "new" => key[u] = u
  /\ Whole("config") => Fits(files["config"])
  /\ Fresh
  /\ SavedLinkWorks

(* What holds as long as no two commands overlap, and what always does. *)
ProvInv == ProvTypes /\ ListInv /\ (~overlapped => InTurn)

----------------------------------------------------------------------------
(* The names of files are not those of users. *)
LEMMA NamesDiffer ==
  /\ Users \cap {"config", "cert", "tlsKey", "import", "link"} = {}
  /\ LinkFiles \subseteq FileNames /\ TlsFiles \subseteq FileNames /\ "config" \in FileNames
  /\ "config" \notin LinkFiles /\ "cert" \notin LinkFiles /\ "tlsKey" \notin LinkFiles
  /\ Writing = {"cert", "tlsKey", "config", "import", "link"}
  /\ TlsFiles = {"cert", "tlsKey"}
  BY UsersAssumption DEF Writing, TlsFiles, FileNames, LinkFiles

(* A configuration fits on while links are saved that it lets in.            *)
LEMMA FitStays ==
  ASSUME NEW c, NEW fs, NEW gs, NEW out, NEW unknown, NEW more,
         Fit(c, fs, out, unknown), unknown \subseteq more,
         \A f \in LinkFiles : Saved(gs, f) =>
            gs[f] = fs[f] \/ gs[f].sid \in more \/ LetsIn(c, gs[f])
  PROVE  Fit(c, gs, out, more)
  BY DEF Fit, Saved

USE DEF operatorVars

(* What a run leads to that goes on to another file, or ends: it knows what  *)
(* it knew for as long as it runs.                                           *)
LEMMA MovesOn ==
  ASSUME ProvTypes, NEW u \in Users, NEW spot \in Writing \cup {"done"}, MoveTo(u, spot)
  PROVE  /\ pc' = [pc EXCEPT ![u] = spot] /\ pc'[u] = spot
         /\ key' = [key EXCEPT ![u] = key'[u]] /\ body' = [body EXCEPT ![u] = body'[u]]
         /\ Running(u)' => key'[u] = key[u] /\ body'[u] = body[u] /\ spot \in Writing
         /\ UNCHANGED <<server, revoked, recalled, overlapped>>
         /\ \A v \in Users : pc'[v] = "new" => pc[v] = "new"
  BY NamesDiffer DEF MoveTo, ProvTypes, Running

(* A step of a run that writes a file, or is killed: where it is then, and   *)
(* what becomes of the configuration.                                        *)
LEMMA Writes ==
  ASSUME ProvTypes, NEW u \in Users, Fill(u) \/ FillFails(u) \/ Kill(u)
  PROVE  /\ \E spot \in Writing \cup {"done"} :
              /\ MoveTo(u, spot)
              /\ spot \in TlsFiles \cup {"config"} => Lists(u)
         /\ pc' = [pc EXCEPT ![u] = pc'[u]] /\ pc'[u] \in Writing \cup {"done"}
         /\ Running(u)
         /\ Lists(u)' => Lists(u) /\ body'[u] = body[u]
         /\ \A v \in Users \ {u} : pc'[v] = pc[v] /\ body'[v] = body[v]
         /\ UNCHANGED <<server, revoked, recalled, overlapped>>
         /\ files' = [f \in FileNames |-> files'[f]]
         /\ \/ files'["config"] = files["config"]
            \/ files'["config"] = Empty
            \/ files'["config"] = body[u] /\ pc[u] = "config" /\ ~Lists(u)'
  <1>1. PICK spot \in Writing \cup {"done"} :
               MoveTo(u, spot) /\ (spot \in TlsFiles \cup {"config"} => Lists(u))
    <2>1. pc[u] \in Writing => After(u) \in Writing \cup {"done"}
      BY NamesDiffer DEF After
    <2>2. pc[u] \in Writing /\ After(u) \in TlsFiles \cup {"config"} => Lists(u)
      BY NamesDiffer DEF After, Lists
    <2>3. CASE Kill(u)
      BY <2>3, NamesDiffer DEF Kill
    <2>4. CASE Fill(u) \/ FillFails(u)
      BY <2>1, <2>2, <2>4 DEF Fill, FillFails
    <2>. QED  BY <2>3, <2>4
  <1>2. /\ pc' = [pc EXCEPT ![u] = spot] /\ pc'[u] = spot
        /\ body' = [body EXCEPT ![u] = body'[u]]
        /\ Running(u)' => body'[u] = body[u]
        /\ UNCHANGED <<server, revoked, recalled, overlapped>>
    BY <1>1, MovesOn
  <1>3. \A v \in Users \ {u} : pc'[v] = pc[v] /\ body'[v] = body[v]
    BY <1>2 DEF ProvTypes
  <1>4. Lists(u)' => Lists(u) /\ body'[u] = body[u]
    BY <1>1, <1>2, NamesDiffer DEF Lists, Running
  <1>5. Running(u)
    BY DEF Fill, FillFails, Kill, Running
  <1>6. \/ files' = files
        \/ /\ pc[u] \in Writing /\ MoveTo(u, After(u))
           /\ \E x \in {Empty, Content(u)} : files' = [files EXCEPT ![File(u)] = x]
    BY DEF Fill, FillFails, Kill
  <1>7. CASE files' = files
    BY <1>1, <1>2, <1>3, <1>4, <1>5, <1>7 DEF ProvTypes
  <1>8. CASE /\ pc[u] \in Writing /\ MoveTo(u, After(u))
             /\ \E x \in {Empty, Content(u)} : files' = [files EXCEPT ![File(u)] = x]
    <2>1. PICK x \in {Empty, Content(u)} : files' = [files EXCEPT ![File(u)] = x]
      BY <1>8
    <2>2. files' = [f \in FileNames |-> files'[f]]
      BY <2>1 DEF ProvTypes
    <2>3. CASE pc[u] = "config"
      <3>1. File(u) = "config" /\ Content(u) = body[u] /\ After(u) \notin TlsFiles \cup {"config"}
        BY <2>3, NamesDiffer DEF File, Content, After
      <3>2. pc'[u] = After(u)
        BY <1>8 DEF MoveTo, ProvTypes
      <3>3. files'["config"] \in {Empty, body[u]} /\ ~Lists(u)'
        BY <2>1, <3>1, <3>2, NamesDiffer DEF ProvTypes, Lists
      <3>. QED  BY <1>1, <1>2, <1>3, <1>4, <1>5, <2>2, <2>3, <3>3
    <2>4. CASE pc[u] # "config"
      <3>1. File(u) # "config"
        BY <2>4, NamesDiffer DEF File
      <3>2. files'["config"] = files["config"]
        BY <2>1, <3>1, NamesDiffer DEF ProvTypes
      <3>. QED  BY <1>1, <1>2, <1>3, <1>4, <1>5, <2>2, <3>2
    <2>. QED  BY <2>3, <2>4
  <1>. QED  BY <1>6, <1>7, <1>8

(* What an edit leaves in the file. *)
LEMMA Edits ==
  ASSUME ProvTypes, NEW U \in SUBSET Users, Edit(U)
  PROVE  /\ Whole("config") /\ Whole("config")'
         /\ files["config"] \in Configs /\ files'["config"] \in Configs
         /\ files'["config"].users = U /\ files'["config"].key = files["config"].key
         /\ files'["config"] # Absent
         /\ files' = [f \in FileNames |-> files'[f]]
         /\ \A f \in LinkFiles : files'[f] = files[f]
         /\ UNCHANGED <<open, kind, key, body, unlisted, server>>
  <1>1. Whole("config") /\ files' = [files EXCEPT !["config"] = [@ EXCEPT !.users = U]]
        /\ UNCHANGED <<open, kind, key, body, unlisted, server>>
    BY DEF Edit
  <1>2. files["config"] \in Configs
    BY <1>1 DEF Whole, ProvTypes
  <1>3. /\ files'["config"] = [files["config"] EXCEPT !.users = U]
        /\ \A f \in LinkFiles : files'[f] = files[f]
        /\ files' = [f \in FileNames |-> files'[f]]
    BY <1>1, NamesDiffer DEF ProvTypes
  <1>4. /\ files'["config"] \in Configs
        /\ files'["config"].users = U /\ files'["config"].key = files["config"].key
    BY <1>2, <1>3 DEF Configs
  <1>5. files'["config"] \notin {Absent, Empty}
    BY <1>4, EmptyAssumption DEF Configs
  <1>. QED  BY <1>1, <1>2, <1>3, <1>4, <1>5 DEF Whole

(* No variable changes its type. *)
LEMMA TypesStay ==
  ASSUME ProvTypes, [ProvNext]_provVars
  PROVE  ProvTypes'
  <1> USE DEF runVars
  <1>1. ASSUME NEW u \in Users, NEW command \in {"setup", "init"}, Setup(u, command)
        PROVE  ProvTypes'
    <2>1. \/ pc' = [pc EXCEPT ![u] = "done"] /\ UNCHANGED <<kind, body>>
          \/ /\ pc' = [pc EXCEPT ![u] = "cert"]
             /\ kind' = [kind EXCEPT ![u] = command]
             /\ body' = [body EXCEPT ![u] = [key |-> u, users |-> {u}]]
      BY <1>1 DEF Setup
    <2>2. UNCHANGED <<files, open, key, unlisted, revoked>>
      BY <1>1 DEF Setup
    <2>3. [key |-> u, users |-> {u}] \in Configs
      BY DEF Configs
    <2>4. /\ pc' \in [Users -> Places] /\ pc'[u] \in {"done", "cert"}
          /\ kind' \in [Users -> {"adduser", "setup", "init"}]
          /\ body' = [v \in Users |-> body'[v]]
          /\ pc'[u] = "cert" => body'[u] \in Configs
          /\ \A v \in Users \ {u} : pc'[v] = pc[v] /\ body'[v] = body[v]
      <3>1. {"done", "cert"} \subseteq Places
        BY NamesDiffer DEF Places
      <3>2. CASE pc' = [pc EXCEPT ![u] = "done"] /\ UNCHANGED <<kind, body>>
        BY <3>1, <3>2 DEF ProvTypes
      <3>3. CASE /\ pc' = [pc EXCEPT ![u] = "cert"]
                 /\ kind' = [kind EXCEPT ![u] = command]
                 /\ body' = [body EXCEPT ![u] = [key |-> u, users |-> {u}]]
        <4>1. pc' \in [Users -> Places] /\ pc'[u] = "cert"
          BY <3>1, <3>3 DEF ProvTypes
        <4>2. kind' \in [Users -> {"adduser", "setup", "init"}]
          BY <3>3 DEF ProvTypes
        <4>3. body' = [v \in Users |-> body'[v]] /\ body'[u] \in Configs
          BY <2>3, <3>3 DEF ProvTypes
        <4>4. \A v \in Users \ {u} : pc'[v] = pc[v] /\ body'[v] = body[v]
          BY <3>3 DEF ProvTypes
        <4>. QED  BY <4>1, <4>2, <4>3, <4>4
      <3>. QED  BY <2>1, <3>2, <3>3
    <2>5. \A v \in Users : Lists(v)' => body'[v] \in Configs \cup {Empty}
      BY <2>4, NamesDiffer DEF ProvTypes, Lists
    <2>6. \A v \in Users : pc'[v] = "loaded" => files'["config"] # Absent
      BY <2>2, <2>4 DEF ProvTypes
    <2>. QED  BY <2>2, <2>4, <2>5, <2>6 DEF ProvTypes
  <1>2. ASSUME NEW u \in Users, AdduserLoads(u) PROVE ProvTypes'
    <2>1. Whole("config") => files["config"].key \in Users /\ files["config"] # Absent
      BY DEF ProvTypes, Configs, Whole
    <2>. QED  BY <1>2, <2>1, NamesDiffer DEF AdduserLoads, ProvTypes, Places, Lists
  <1>3. ASSUME NEW u \in Users, Keygen(u) \/ Revoke(u) PROVE ProvTypes'
    <2>1. PICK U \in SUBSET Users : Edit(U)
      <3>1. Whole("config") => files["config"].users \in SUBSET Users
        BY DEF ProvTypes, Configs, Whole
      <3>. QED  BY <1>3, <3>1 DEF Keygen, Revoke
    <2>2. /\ files' = [f \in FileNames |-> files'[f]] /\ files'["config"] \in Configs
          /\ files'["config"] # Absent /\ UNCHANGED <<open, kind, key, body, unlisted>>
      BY <2>1, Edits
    <2>3. /\ pc' = pc \/ pc' = [pc EXCEPT ![u] = "done"]
          /\ revoked' \in SUBSET Users
      BY <1>3 DEF Keygen, Revoke, ProvTypes
    <2>. QED  BY <2>2, <2>3, NamesDiffer DEF ProvTypes, Places, Lists
  <1>4. ASSUME NEW u \in Users, AdduserReads(u) PROVE ProvTypes'
    <2>1. AddEntry(files["config"], u) \in Configs \cup {Empty}
      <3>1. files["config"] \in Configs \cup {Empty}
        BY <1>4 DEF AdduserReads, ProvTypes
      <3>. QED  BY <3>1 DEF AddEntry, NoPlace, Configs
    <2>2. /\ body' = [body EXCEPT ![u] = AddEntry(files["config"], u)]
          /\ pc' = [pc EXCEPT ![u] = "config"]
          /\ unlisted' = unlisted \cup {v \in {u} : NoPlace(files["config"])}
          /\ UNCHANGED <<files, open, kind, key, revoked>>
      BY <1>4 DEF AdduserReads
    <2>. QED  BY <2>1, <2>2, NamesDiffer DEF ProvTypes, Places, Lists
  <1>5. ASSUME NEW u \in Users, Truncate(u) PROVE ProvTypes'
    BY <1>5, NamesDiffer, EmptyAssumption DEF Truncate, ProvTypes, Lists
  <1>6. ASSUME NEW u \in Users, Fill(u) \/ FillFails(u) \/ Kill(u) PROVE ProvTypes'
    <2>1. PICK spot \in Writing \cup {"done"} : MoveTo(u, spot)
      BY <1>6, Writes
    <2>2. /\ pc' \in [Users -> Places] /\ open' \in [Users -> BOOLEAN]
          /\ kind' \in [Users -> {"adduser", "setup", "init"}]
          /\ key' \in [Users -> Users]
          /\ body' = [v \in Users |-> body'[v]]
      BY <2>1 DEF MoveTo, ProvTypes, Places
    <2>3. unlisted' \in SUBSET Users /\ revoked' = revoked
      BY <1>6, <2>1 DEF Fill, FillFails, Kill, MoveTo, ProvTypes
    <2>4. /\ files' = [f \in FileNames |-> files'[f]]
          /\ \/ files'["config"] = files["config"]
             \/ files'["config"] = Empty
             \/ files'["config"] = body[u] /\ pc[u] = "config"
          /\ Lists(u)' => Lists(u) /\ body'[u] = body[u]
          /\ pc'[u] \in Writing \cup {"done"}
          /\ \A v \in Users \ {u} : pc'[v] = pc[v] /\ body'[v] = body[v]
      BY <1>6, Writes
    <2>5. files'["config"] \in Configs \cup {Absent, Empty}
      BY <2>4 DEF ProvTypes, Lists
    <2>6. ASSUME NEW v \in Users, Lists(v)' PROVE body'[v] \in Configs \cup {Empty}
      BY <2>4, <2>6 DEF ProvTypes, Lists
    <2>7. ASSUME NEW v \in Users, pc'[v] = "loaded" PROVE files'["config"] # Absent
      <3>1. v # u /\ pc[v] = "loaded"
        BY <2>4, <2>7, NamesDiffer
      <3>2. files["config"] # Absent
        BY <3>1 DEF ProvTypes
      <3>3. pc[u] = "config" => body[u] # Absent
        BY EmptyAssumption DEF ProvTypes, Lists, Configs
      <3>. QED  BY <3>2, <3>3, <2>4, EmptyAssumption
    <2>. QED  BY <2>2, <2>3, <2>4, <2>5, <2>6, <2>7 DEF ProvTypes
  <1>7. CASE Start \/ Stop \/ UNCHANGED provVars
    BY <1>7 DEF Start, Stop, provVars, ProvTypes, Lists
  <1>. QED  BY <1>1, <1>2, <1>3, <1>4, <1>5, <1>6, <1>7 DEF ProvNext, Step

----------------------------------------------------------------------------
(* A command begins: setup with a list of its own user, who is on no other.  *)
LEMMA BeginKeepsLists ==
  ASSUME ProvTypes, ListInv, NEW u \in Users,
         (\E command \in {"setup", "init"} : Setup(u, command)) \/ AdduserLoads(u)
  PROVE  ListInv'
  <1>1. /\ pc[u] = "new" /\ UNCHANGED <<files, server, revoked, recalled>>
        /\ \A v \in Users \ {u} : pc'[v] = pc[v] /\ body'[v] = body[v]
        /\ \/ pc'[u] = "cert" /\ body'[u] = [key |-> u, users |-> {u}] /\ files["config"] = Absent
           \/ pc'[u] \in {"done", "loaded"}
    BY DEF Setup, AdduserLoads, Begin, ProvTypes
  <1>2. Unwritten(u) /\ u \notin revoked
    BY <1>1 DEF Unwritten, ListInv, OwnOnly
  <1>3. /\ \A v \in Users \ {u} : (Lists(v)' <=> Lists(v)) /\ (Unwritten(v)' <=> Unwritten(v))
        /\ Lists(u)' => body'[u].users = {u}
    BY <1>1, NamesDiffer DEF Lists, Unwritten
  <1>4. ListsPurged'
    BY <1>1, <1>2, <1>3 DEF ListInv, ListsPurged, Purged, Whole
  <1>5. OwnOnly'
    BY <1>1, <1>2, <1>3 DEF ListInv, OwnOnly, Whole
  <1>6. RevokedStaysOut'
    BY <1>1 DEF ListInv, RevokedStaysOut
  <1>. QED  BY <1>4, <1>5, <1>6 DEF ListInv

(* adduser adds its own user to the list there is. *)
LEMMA ReadKeepsLists ==
  ASSUME ProvTypes, ListInv, NEW u \in Users, AdduserReads(u)
  PROVE  ListInv'
  <1> DEFINE c == files["config"]
  <1>1. /\ pc[u] = "loaded" /\ pc'[u] = "config" /\ body'[u] = AddEntry(c, u)
        /\ \A v \in Users \ {u} : pc'[v] = pc[v] /\ body'[v] = body[v]
        /\ UNCHANGED <<files, server, revoked, recalled>>
    BY DEF AdduserReads, ProvTypes
  <1>2. Unwritten(u) /\ u \notin revoked /\ c \in Configs \cup {Empty}
    BY <1>1 DEF Unwritten, ListInv, OwnOnly, ProvTypes
  <1>3. /\ \A v \in Users \ {u} : (Lists(v)' <=> Lists(v)) /\ (Unwritten(v)' <=> Unwritten(v))
    BY <1>1 DEF Lists, Unwritten
  <1>4. body'[u] # Empty => Whole("config") /\ body'[u].users \subseteq c.users \cup {u}
    BY <1>1, <1>2, EmptyAssumption DEF AddEntry, NoPlace, Whole, Configs
  <1>5. ListsPurged'
    BY <1>1, <1>2, <1>3, <1>4 DEF ListInv, ListsPurged, Purged, Whole
  <1>6. OwnOnly'
    <2>1. SUFFICES ASSUME NEW w \in Users, Unwritten(w)'
                   PROVE  /\ w \notin revoked'
                          /\ Whole("config")' => w \notin files'["config"].users
                          /\ \A v \in Users :
                               Lists(v)' /\ body'[v] # Empty /\ w \in body'[v].users => w = v
      BY DEF OwnOnly
    <2>2. Unwritten(w)
      BY <2>1, <1>2, <1>3
    <2>3. /\ w \notin revoked /\ (Whole("config") => w \notin c.users)
          /\ \A v \in Users : Lists(v) /\ body[v] # Empty /\ w \in body[v].users => w = v
      BY <2>2 DEF ListInv, OwnOnly
    <2>. QED  BY <2>3, <1>1, <1>3, <1>4 DEF Whole
  <1>7. RevokedStaysOut'
    BY <1>1 DEF ListInv, RevokedStaysOut
  <1>. QED  BY <1>5, <1>6, <1>7 DEF ListInv

(* The configuration is truncated, or a run goes on or ends. *)
LEMMA WriteKeepsLists ==
  ASSUME ProvTypes, ListInv, NEW u \in Users, Truncate(u) \/ Fill(u) \/ FillFails(u) \/ Kill(u)
  PROVE  ListInv'
  <1>1. CASE Truncate(u)
    <2>1. files'["config"] = Empty /\ UNCHANGED <<pc, body, server, revoked, recalled>>
      BY <1>1, NamesDiffer DEF Truncate, ProvTypes
    <2>2. ~Whole("config")'
      BY <2>1 DEF Whole
    <2>. QED  BY <2>1, <2>2 DEF ListInv, ListsPurged, OwnOnly, RevokedStaysOut, Purged, Lists, Unwritten
  <1>2. CASE Fill(u) \/ FillFails(u) \/ Kill(u)
    <2>1. /\ pc'[u] \in Writing \cup {"done"} /\ Running(u)
          /\ Lists(u)' => Lists(u) /\ body'[u] = body[u]
          /\ \A v \in Users \ {u} : pc'[v] = pc[v] /\ body'[v] = body[v]
          /\ UNCHANGED <<server, revoked, recalled>>
          /\ \/ files'["config"] = files["config"]
             \/ files'["config"] = Empty
             \/ files'["config"] = body[u] /\ pc[u] = "config" /\ ~Lists(u)'
      BY <1>2, Writes
    <2>2. /\ \A v \in Users : Lists(v)' => Lists(v) /\ body'[v] = body[v]
          /\ \A v \in Users : Unwritten(v)' => Unwritten(v)
          /\ Unwritten(u)' => Lists(u)'
      BY <2>1, NamesDiffer DEF Lists, Unwritten
    <2>3. Whole("config")' =>
             \/ Whole("config") /\ files'["config"] = files["config"]
             \/ files'["config"] = body[u] /\ Lists(u) /\ body[u] # Empty /\ ~Unwritten(u)'
      BY <2>1, <2>2 DEF Whole, Lists
    <2>4. ListsPurged'
      BY <2>1, <2>2, <2>3 DEF ListInv, ListsPurged, Purged
    <2>5. OwnOnly'
      BY <2>1, <2>2, <2>3 DEF ListInv, OwnOnly
    <2>6. RevokedStaysOut'
      BY <2>1 DEF ListInv, RevokedStaysOut
    <2>. QED  BY <2>4, <2>5, <2>6 DEF ListInv
  <1>. QED  BY <1>1, <1>2

(* A user taken out is on no list of a run, or recalled.                     *)
LEMMA EditKeepsLists ==
  ASSUME ProvTypes, ListInv, NEW u \in Users, Revoke(u) \/ Keygen(u)
  PROVE  ListInv'
  <1> DEFINE c == files["config"]
             d == files'["config"]
  <1>1. PICK U \in SUBSET Users : Edit(U) /\ \/ Revoke(u) /\ U = c.users \ {u}
                                             \/ Keygen(u) /\ U = c.users \cup {u}
    <2>1. Whole("config") => c.users \in SUBSET Users
      BY DEF ProvTypes, Configs, Whole
    <2>. QED  BY <2>1 DEF Keygen, Revoke
  <1>2. Whole("config") /\ d.users = U /\ UNCHANGED <<body, server>>
    BY <1>1, Edits
  <1>3. RevokedStaysOut'
    BY <1>2 DEF ListInv, RevokedStaysOut
  <1>4. Purged(c) /\ \A w \in Users : Unwritten(w) => w \notin c.users /\ w \notin revoked
    BY <1>2 DEF ListInv, ListsPurged, OwnOnly
  <1>5. CASE Revoke(u)
    <2>1. /\ u \in c.users /\ pc' = pc /\ revoked' = revoked \cup {u}
          /\ recalled' = IF Recalls(u) THEN recalled \cup {u} ELSE recalled \ {u}
      BY <1>5 DEF Revoke
    <2>2. ~Unwritten(u) /\ d.users = c.users \ {u}
      BY <1>1, <1>2, <1>4, <2>1, <1>5 DEF Keygen, Unwritten
    <2>3. \A v \in Users : (Lists(v)' <=> Lists(v)) /\ (Unwritten(v)' <=> Unwritten(v))
      BY <2>1 DEF Lists, Unwritten
    <2>4. d.users \cap revoked' \subseteq recalled'
      BY <2>1, <2>2, <1>4 DEF Purged
    <2>5. ASSUME NEW v \in Users, Lists(v), body[v] # Empty
          PROVE  body[v].users \cap revoked' \subseteq recalled'
      <3>1. body[v].users \cap revoked \subseteq recalled
        BY <2>5 DEF ListInv, ListsPurged, Purged
      <3>2. u \in body[v].users => Recalls(u)
        BY <2>5 DEF Recalls, Lists
      <3>. QED  BY <3>1, <3>2, <2>1
    <2>6. ListsPurged'
      BY <1>2, <2>3, <2>4, <2>5 DEF ListsPurged, Purged
    <2>7. OwnOnly'
      BY <1>2, <1>4, <2>1, <2>2, <2>3 DEF ListInv, OwnOnly
    <2>. QED  BY <1>3, <2>6, <2>7 DEF ListInv
  <1>6. CASE Keygen(u)
    <2>1. /\ pc[u] = "new" /\ pc'[u] = "done" /\ UNCHANGED <<revoked, recalled>>
          /\ \A v \in Users \ {u} : pc'[v] = pc[v]
      BY <1>6 DEF Keygen, ProvTypes
    <2>2. Unwritten(u) /\ d.users \subseteq c.users \cup {u}
      BY <1>1, <1>2, <2>1 DEF Unwritten
    <2>3. /\ \A v \in Users : Lists(v)' <=> Lists(v)
          /\ \A v \in Users : Unwritten(v)' => Unwritten(v) /\ v # u
      BY <2>1, NamesDiffer DEF Lists, Unwritten
    <2>4. ListsPurged'
      BY <1>2, <1>4, <2>1, <2>2, <2>3 DEF ListInv, ListsPurged, Purged
    <2>5. OwnOnly'
      BY <1>2, <1>4, <2>1, <2>2, <2>3 DEF ListInv, OwnOnly
    <2>. QED  BY <1>3, <2>4, <2>5 DEF ListInv
  <1>. QED  BY <1>1, <1>5, <1>6

(* No step brings a user back that no run recalled. *)
LEMMA ListsStay ==
  ASSUME ProvTypes, ListInv, [ProvNext]_provVars
  PROVE  ListInv'
  <1>1. ASSUME NEW u \in Users,
               \/ (\E command \in {"setup", "init"} : Setup(u, command))
               \/ AdduserLoads(u) \/ Keygen(u) \/ Revoke(u) \/ Step(u) \/ Kill(u)
        PROVE  ListInv'
    BY <1>1, BeginKeepsLists, EditKeepsLists, ReadKeepsLists, WriteKeepsLists DEF Step
  <1>2. CASE Start \/ Stop \/ UNCHANGED provVars
    <2>1. UNCHANGED <<files, pc, body, revoked, recalled>>
      BY <1>2 DEF Start, Stop, provVars, runVars
    <2>2. ListsPurged' /\ OwnOnly'
      BY <2>1 DEF ListInv, ListsPurged, OwnOnly, Purged, Whole, Lists, Unwritten
    <2>3. RevokedStaysOut'
      <3>1. CASE Start
        BY <3>1 DEF Start, RevokedStaysOut, ListInv, ListsPurged, Purged
      <3>2. CASE Stop
        BY <3>2 DEF Stop, RevokedStaysOut
      <3>3. CASE UNCHANGED provVars
        BY <3>3 DEF provVars, ListInv, RevokedStaysOut
      <3>. QED  BY <1>2, <3>1, <3>2, <3>3
    <2>. QED  BY <2>2, <2>3 DEF ListInv
  <1>. QED  BY <1>1, <1>2 DEF ProvNext

----------------------------------------------------------------------------
(* What was true of a server that runs stays true of it, whoever is not      *)
(* listed from now on.                                                       *)
LEMMA ServerStays ==
  ASSUME SavedLinkWorks, ~overlapped, UNCHANGED server, unlisted \subseteq unlisted'
  PROVE  SavedLinkWorks'
  BY DEF SavedLinkWorks, Validate, ParseURI

(* A command that begins while nothing else runs.                            *)
LEMMA BeginsInTurn ==
  ASSUME ProvInv, ProvTypes', NEW u \in Users, ~overlapped',
         (\E command \in {"setup", "init"} : Setup(u, command)) \/ AdduserLoads(u)
  PROVE  InTurn'
  <1>1. Begin(u)
    BY DEF Setup, AdduserLoads
  <1>2. ProvTypes /\ InTurn /\ ~overlapped /\ \A v \in Users : ~Running(v)
    BY <1>1 DEF Begin, Busy, ProvInv
  <1>3. pc[u] = "new" /\ key[u] = u /\ pc' = [pc EXCEPT ![u] = pc'[u]]
        /\ UNCHANGED <<files, open, server, revoked, unlisted>>
    BY <1>1, <1>2 DEF Begin, InTurn, Setup, AdduserLoads, ProvTypes
  <1>4. /\ \A v \in Users \ {u} : pc'[v] = pc[v] /\ ~Running(v)' /\ key'[v] = key[v]
        /\ pc'[u] \in {"done", "cert", "loaded"}
    BY <1>2, <1>3 DEF Setup, AdduserLoads, Running, ProvTypes
  <1>5. \A v \in Users : pc'[v] = "new" => key'[v] = v
    BY <1>2, <1>3, <1>4 DEF InTurn
  <1>6. Whole("config")' => Fits(files["config"])'
    BY <1>2, <1>3 DEF InTurn, Whole, Fits
  <1>7. Fresh'
    BY <1>2, <1>3 DEF InTurn, Fresh
  <1>8. SavedLinkWorks'
    BY <1>2, <1>3, ServerStays DEF InTurn
  <1>9. Running(u)' => RunFits(u)'
    <2>1. ASSUME NEW command \in {"setup", "init"}, Setup(u, command), Running(u)'
          PROVE  RunFits(u)'
      <3>1. /\ files["config"] = Absent /\ pc'[u] = "cert" /\ key' = key
            /\ body'[u] = [key |-> u, users |-> {u}]
        BY <1>2, <2>1 DEF Setup, Running, Writing, TlsFiles, ProvTypes
      <3>2. Fit(body'[u], files', revoked', unlisted')
        BY <3>1, <1>2, <1>3 DEF Fit, Configs, InTurn, Fresh
      <3>3. Knows(u, body[u])'
        BY <3>1, <1>3 DEF Knows
      <3>4. ~Whole("config")'
        BY <3>1, <1>3 DEF Whole
      <3>. QED  BY <3>1, <3>2, <3>3, <3>4 DEF RunFits, Fits
    <2>2. ASSUME AdduserLoads(u), Running(u)'
          PROVE  RunFits(u)'
      <3>1. Whole("config") /\ pc'[u] = "loaded" /\ key'[u] = files["config"].key
        BY <1>2, <2>2 DEF AdduserLoads, Running, Writing, TlsFiles, ProvTypes
      <3>. QED  BY <3>1, <1>3, NamesDiffer DEF RunFits, Whole, Lists
    <2>. QED  BY <2>1, <2>2
  <1>. QED  BY <1>4, <1>5, <1>6, <1>7, <1>8, <1>9 DEF InTurn

(* A step of the run that is under way, when it changes neither the revoked  *)
(* nor the server: what it must keep.                                        *)
LEMMA RunsInTurn ==
  ASSUME ProvTypes, InTurn, ~overlapped, NEW u \in Users, Running(u),
         pc' = [pc EXCEPT ![u] = pc'[u]], pc'[u] # "new", key' = [key EXCEPT ![u] = key'[u]],
         UNCHANGED <<revoked, server>>, unlisted \subseteq unlisted',
         Running(u)' => RunFits(u)',
         Whole("config")' => Fits(files["config"])',
         Fresh'
  PROVE  InTurn'
  <1>1. \A v \in Users \ {u} : pc'[v] = pc[v] /\ ~Running(v)' /\ key'[v] = key[v]
    BY DEF InTurn, Running, ProvTypes
  <1>2. \A v \in Users : pc'[v] = "new" => key'[v] = v
    BY <1>1 DEF InTurn
  <1>3. SavedLinkWorks'
    BY ServerStays DEF InTurn
  <1>. QED  BY <1>1, <1>2, <1>3 DEF InTurn

(* adduser makes its configuration of the one that is in the file.           *)
LEMMA ReadsInTurn ==
  ASSUME ProvTypes, InTurn, ~overlapped, NEW u \in Users, AdduserReads(u)
  PROVE  InTurn'
  <1>1. /\ pc[u] = "loaded" /\ pc' = [pc EXCEPT ![u] = "config"] /\ pc'[u] = "config"
        /\ body'[u] = AddEntry(files["config"], u)
        /\ unlisted' = unlisted \cup {v \in {u} : NoPlace(files["config"])}
        /\ UNCHANGED <<files, key, server, revoked>>
    BY DEF AdduserReads, ProvTypes
  <1>2. Running(u) /\ Whole("config") /\ key[u] = files["config"].key
        /\ Fits(files["config"])
    BY <1>1 DEF InTurn, Running, RunFits
  <1>3. \A c : Fits(c) => Fit(c, files', revoked', unlisted')
    BY <1>1, FitStays DEF Fits
  <1> DEFINE c == files["config"]
  <1>4. Fit(body'[u], files', revoked', unlisted') /\ Knows(u, body[u])'
    <2>1. c \in Configs /\ c # Empty
      BY <1>2 DEF Fits, Fit, Whole
    <2>2. CASE c.users = {}
      <3>1. body'[u] = c /\ u \in unlisted'
        BY <2>2, <1>1 DEF AddEntry, NoPlace
      <3>. QED  BY <3>1, <1>1, <1>2, <1>3 DEF Knows
    <2>3. CASE c.users # {}
      <3>1. body'[u] = [c EXCEPT !.users = @ \cup {u}]
        BY <2>1, <2>3, <1>1 DEF AddEntry, NoPlace
      <3>2. body'[u] \in Configs /\ body'[u].key = c.key /\ body'[u].users = c.users \cup {u}
        BY <3>1, <2>1 DEF Configs
      <3>3. Fit(c, files', revoked', unlisted')
        BY <1>2, <1>3
      <3>4. \A f \in LinkFiles : LetsIn(c, files'[f]) => LetsIn(body'[u], files'[f])
        BY <3>2 DEF LetsIn
      <3>5. Fit(body'[u], files', revoked', unlisted')
        BY <3>2, <3>3, <3>4 DEF Fit
      <3>. QED  BY <3>2, <3>5, <1>1, <1>2 DEF Knows
    <2>. QED  BY <2>2, <2>3
  <1>5. RunFits(u)'
    BY <1>1, <1>2, <1>4 DEF RunFits, Fits
  <1>6. Whole("config")' => Fits(files["config"])'
    BY <1>1, <1>2, <1>3 DEF Fits
  <1>7. Fresh'
    BY <1>1, <1>2 DEF Whole, Fresh
  <1>8. /\ pc' = [pc EXCEPT ![u] = pc'[u]] /\ key' = [key EXCEPT ![u] = key'[u]]
        /\ unlisted \subseteq unlisted'
    BY <1>1 DEF ProvTypes
  <1>. QED  BY <1>1, <1>2, <1>5, <1>6, <1>7, <1>8, RunsInTurn

(* The configuration is truncated before it is written.                      *)
LEMMA TruncatesInTurn ==
  ASSUME ProvTypes, InTurn, ~overlapped, NEW u \in Users, Truncate(u)
  PROVE  InTurn'
  <1>1. /\ pc[u] = "config" /\ files' = [files EXCEPT !["config"] = Empty]
        /\ UNCHANGED <<pc, key, body, unlisted, server, revoked>>
    BY DEF Truncate
  <1>2. /\ files'["config"] = Empty /\ files'["config"] # Absent
        /\ \A f \in LinkFiles : files'[f] = files[f]
    BY <1>1, NamesDiffer, EmptyAssumption DEF ProvTypes
  <1>3. Running(u) /\ RunFits(u) /\ Lists(u)
    BY <1>1, NamesDiffer DEF Running, InTurn, Lists
  <1>4. Fit(body[u], files', revoked', unlisted')
    <2>1. Fit(body[u], files, revoked, unlisted)
      BY <1>3, Zenon DEF RunFits, Fits
    <2>2. Fit(body[u], files', revoked, unlisted)
      BY ONLY <2>1, <1>2, FitStays
    <2>. QED  BY <2>2, <1>1, Zenon
  <1>5. ~Whole("config")'
    BY <1>2 DEF Whole
  <1>6. RunFits(u)'
    BY <1>1, <1>3, <1>4, <1>5 DEF RunFits, Fits, Knows, Lists
  <1>7. pc' = [pc EXCEPT ![u] = pc'[u]] /\ pc'[u] # "new" /\ key' = [key EXCEPT ![u] = key'[u]]
    BY <1>1 DEF ProvTypes
  <1>8. Fresh'
    BY <1>2 DEF Fresh
  <1>. QED  BY <1>1, <1>3, <1>5, <1>6, <1>7, <1>8, RunsInTurn

(* A file of the run is written, left empty, or left as it was.              *)
LEMMA FillsInTurn ==
  ASSUME ProvTypes, InTurn, ~overlapped, NEW u \in Users, Fill(u) \/ FillFails(u)
  PROVE  InTurn'
  <1>1. /\ pc[u] \in Writing /\ MoveTo(u, After(u)) /\ After(u) \in Writing \cup {"done"}
        /\ \A f \in FileNames : f # File(u) => files'[f] = files[f]
        /\ files'[File(u)] \in {Content(u), Empty, files[File(u)]}
        /\ File(u) \in FileNames
    <2>1. pc[u] \in Writing /\ MoveTo(u, After(u))
      BY DEF Fill, FillFails
    <2>2. After(u) \in Writing \cup {"done"}
      BY NamesDiffer DEF After
    <2>3. File(u) \in FileNames
      BY <2>1, NamesDiffer DEF File, FileNames
    <2>4. \/ files' = files
          \/ \E x \in {Content(u), Empty} : files' = [files EXCEPT ![File(u)] = x]
      BY DEF Fill, FillFails
    <2>5. /\ \A f \in FileNames : f # File(u) => files'[f] = files[f]
          /\ files'[File(u)] \in {Content(u), Empty, files[File(u)]}
      BY <2>3, <2>4 DEF ProvTypes
    <2>. QED  BY <2>1, <2>2, <2>3, <2>5
  <1>2. /\ pc' = [pc EXCEPT ![u] = pc'[u]] /\ pc'[u] = After(u)
        /\ key' = [key EXCEPT ![u] = key'[u]]
        /\ Running(u)' => key'[u] = key[u] /\ body'[u] = body[u] /\ After(u) \in Writing
        /\ UNCHANGED <<server, revoked, overlapped>>
        /\ pc'[u] # "new"
    BY <1>1, MovesOn, NamesDiffer
  <1>3. Running(u) /\ RunFits(u)
    BY <1>1 DEF Running, InTurn
  <1>4. /\ unlisted \subseteq unlisted'
        /\ pc[u] = "config" => u \in unlisted' \/ files'["config"] = body[u]
    BY NamesDiffer DEF Fill, FillFails, File, Content, ProvTypes
  <1>5. CASE pc[u] \in TlsFiles
    <2>1. File(u) = pc[u] /\ File(u) \notin LinkFiles /\ File(u) # "config"
          /\ After(u) \in TlsFiles \cup {"config"} /\ Lists(u)
      BY <1>5, NamesDiffer DEF File, After, Lists
    <2>2. files'["config"] = files["config"] /\ \A f \in LinkFiles : files'[f] = files[f]
      BY <2>1, <1>1, NamesDiffer
    <2>3. \A c : Fits(c) => Fit(c, files', revoked', unlisted')
      BY <2>2, <1>2, <1>4, FitStays DEF Fits
    <2>4. Running(u)' => RunFits(u)'
      BY <2>1, <2>2, <2>3, <1>2, <1>3, <1>4, NamesDiffer DEF RunFits, Fits, Knows, Whole
    <2>5. Whole("config")' => Fits(files["config"])'
      BY <2>2, <2>3 DEF InTurn, Whole, Fits
    <2>6. Fresh'
      BY <2>2, <1>4 DEF InTurn, Fresh, Saved
    <2>. QED  BY <2>4, <2>5, <2>6, <1>2, <1>3, <1>4, RunsInTurn
  <1>6. CASE pc[u] = "config"
    <2>1. File(u) = "config" /\ After(u) \in {"import", "link"} /\ Content(u) = body[u] /\ Lists(u)
      BY <1>6, NamesDiffer DEF File, After, Content, Lists
    <2>2. /\ files'["config"] \in {body[u], Empty, files["config"]}
          /\ \A f \in LinkFiles : files'[f] = files[f]
      BY <2>1, <1>1, NamesDiffer
    <2>3. Fits(body[u]) /\ Knows(u, body[u]) /\ (Whole("config") => key[u] = files["config"].key)
      BY <1>3, <2>1 DEF RunFits
    <2>4. \A c : Fits(c) => Fit(c, files', revoked', unlisted')
      BY <2>2, <1>2, <1>4, FitStays DEF Fits
    <2>5. files'["config"] = Absent => u \in unlisted' /\ files["config"] = Absent
      BY <2>2, <2>3, <1>4, <1>6, EmptyAssumption DEF Fits, Fit, Configs
    <2>6. Whole("config")' =>
             \/ files'["config"] = body[u]
             \/ files'["config"] = files["config"] /\ Whole("config") /\ u \in unlisted'
      BY <2>2, <1>4, <1>6 DEF Whole
    <2>7. Running(u)' => RunFits(u)'
      <3>1. Running(u)' /\ Whole("config")' => Knows(u, files["config"])'
        BY <2>3, <2>6, <1>2, <1>4 DEF Knows
      <3>2. ~Lists(u)' /\ pc'[u] # "loaded"
        BY <2>1, <1>2, NamesDiffer DEF Lists
      <3>. QED  BY <3>1, <3>2, <2>5 DEF RunFits
    <2>8. Whole("config")' => Fits(files["config"])'
      BY <2>3, <2>4, <2>6 DEF Fits, InTurn
    <2>9. Fresh'
      BY <2>2, <2>5, <1>4 DEF Fresh, InTurn, Saved
    <2>. QED  BY <2>7, <2>8, <2>9, <1>2, <1>3, <1>4, RunsInTurn
  <1>7. CASE pc[u] \in {"import", "link"}
    <2>1. /\ File(u) \in LinkFiles /\ After(u) \in {"link", "done"}
          /\ Content(u) = [pub |-> key[u], sid |-> u, upk |-> u]
      BY <1>7, NamesDiffer DEF File, After, Content, GenerateURI, LinkFiles
    <2>2. /\ files'["config"] = files["config"]
          /\ files["config"] = Absent => u \in unlisted
          /\ Whole("config") => Knows(u, files["config"])
      BY <2>1, <1>1, <1>3, <1>7, NamesDiffer DEF RunFits
    <2>3. \A f \in LinkFiles : Saved(files', f) =>
            files'[f] = files[f] \/ (f = File(u) /\ files'[f] = Content(u))
      BY <2>1, <1>1, NamesDiffer DEF Saved
    <2>4. Running(u)' => RunFits(u)'
      BY <2>1, <2>2, <1>2, <1>4, NamesDiffer DEF RunFits, Knows, Whole, Lists
    <2>5. Whole("config")' => Fits(files["config"])'
      <3>1. SUFFICES ASSUME Whole("config") PROVE Fit(files["config"], files', revoked', unlisted')
        BY <2>2 DEF Whole, Fits
      <3>2. Fits(files["config"])
        BY <3>1 DEF InTurn
      <3>3. Content(u).sid \in unlisted \/ LetsIn(files["config"], Content(u))
        BY <3>1, <2>1, <2>2 DEF Knows, LetsIn
      <3>4. \A f \in LinkFiles : Saved(files', f) =>
              files'[f] = files[f] \/ files'[f].sid \in unlisted' \/ LetsIn(files["config"], files'[f])
        BY <3>3, <2>3, <1>4
      <3>. QED  BY <3>2, <3>4, <1>2, <1>4, FitStays DEF Fits
    <2>6. Fresh'
      BY <2>1, <2>2, <2>3, <1>4 DEF Fresh, InTurn, Saved
    <2>. QED  BY <2>4, <2>5, <2>6, <1>2, <1>3, <1>4, RunsInTurn
  <1>. QED  BY <1>1, <1>5, <1>6, <1>7, NamesDiffer

(* A run that is killed leaves its files as they are. *)
LEMMA KilledInTurn ==
  ASSUME ProvTypes, InTurn, ~overlapped, NEW u \in Users, Kill(u)
  PROVE  InTurn'
  <1>1. /\ Running(u) /\ UNCHANGED <<files, unlisted, server, revoked>>
        /\ pc' = [pc EXCEPT ![u] = pc'[u]] /\ pc'[u] = "done"
        /\ key' = [key EXCEPT ![u] = key'[u]]
    BY MovesOn DEF Kill
  <1>2. Whole("config")' => Fits(files["config"])'
    BY <1>1 DEF InTurn, Whole, Fits
  <1>3. ~Running(u)'
    BY <1>1, NamesDiffer DEF Running
  <1>4. Fresh'
    BY <1>1 DEF InTurn, Fresh
  <1>. QED  BY <1>1, <1>2, <1>3, <1>4, RunsInTurn

(* The operator's edits, while nothing runs.                                 *)
LEMMA EditsInTurn ==
  ASSUME ProvInv, NEW u \in Users, ~overlapped', Revoke(u) \/ Keygen(u)
  PROVE  InTurn'
  <1> DEFINE c == files["config"]
             d == files'["config"]
  <1>1. /\ ProvTypes /\ InTurn /\ ~overlapped /\ \A v \in Users : ~Running(v)
    BY DEF Revoke, Keygen, Edit, Busy, ProvInv
  <1>2. PICK U \in SUBSET Users : Edit(U) /\ \/ Revoke(u) /\ U = c.users \ {u}
                                             \/ Keygen(u) /\ U = c.users \cup {u}
    <2>1. Whole("config") => c.users \in SUBSET Users
      BY <1>1 DEF ProvTypes, Configs, Whole
    <2>. QED  BY <2>1 DEF Keygen, Revoke
  <1>3. /\ Whole("config") /\ d \in Configs /\ d.users = U /\ d.key = c.key /\ d # Absent
        /\ \A f \in LinkFiles : files'[f] = files[f]
        /\ UNCHANGED <<key, unlisted, server>>
    BY <1>1, <1>2, Edits
  <1>4. /\ revoked \subseteq revoked' /\ c.users \subseteq d.users \cup revoked'
        /\ \A v \in Users : pc'[v] = pc[v] \/ pc'[v] = "done"
    BY <1>1, <1>2, <1>3 DEF Revoke, Keygen, ProvTypes
  <1>5. Fit(d, files', revoked', unlisted')
    <2>1. ASSUME NEW f \in LinkFiles, Saved(files', f)
          PROVE  files'[f].sid \in revoked' \cup unlisted' \/ LetsIn(d, files'[f])
      <3>1. files[f].sid \in revoked \cup unlisted \/ LetsIn(c, files[f])
        BY <2>1, <1>1, <1>3 DEF InTurn, Fits, Fit, Saved
      <3>. QED  BY <3>1, <1>3, <1>4 DEF LetsIn
    <2>. QED  BY <2>1, <1>3 DEF Fit
  <1>6. \A v \in Users : ~Running(v)' /\ (pc'[v] = "new" => key'[v] = v)
    BY <1>1, <1>3, <1>4, NamesDiffer DEF Running, InTurn
  <1>7. SavedLinkWorks'
    BY <1>1, <1>3, ServerStays DEF InTurn
  <1>. QED  BY <1>3, <1>5, <1>6, <1>7 DEF InTurn, Fits, Fresh

(* A server that starts has a configuration that fits, and the links there   *)
(* are at that moment.                                                       *)
LEMMA StartsInTurn ==
  ASSUME ProvTypes, InTurn, ~overlapped, Start \/ Stop
  PROVE  InTurn'
  <1>1. UNCHANGED <<files, pc, key, body, unlisted, revoked>>
    BY DEF Start, Stop, runVars
  <1>2. SavedLinkWorks'
    <2>1. CASE Stop
      BY <2>1 DEF Stop, SavedLinkWorks
    <2>2. CASE Start
      <3>1. /\ server' = [key |-> files["config"].key, users |-> files["config"].users,
                          links |-> SavedLinks, revoked |-> revoked, recalled |-> recalled]
            /\ Fits(files["config"])
        BY <2>2 DEF Start, InTurn
      <3>2. ASSUME NEW l \in SavedLinks
            PROVE  l.sid \in revoked \cup unlisted \/ LetsIn(files["config"], l)
        <4>1. PICK f \in LinkFiles : Saved(files, f) /\ l = files[f]
          BY DEF SavedLinks, Whole, Saved, LinkFiles
        <4>. QED  BY <4>1, <3>1 DEF Fits, Fit
      <3>. QED  BY <3>1, <3>2, <1>1 DEF SavedLinkWorks, Validate, ParseURI, LetsIn
    <2>. QED  BY <2>1, <2>2
  <1>. QED  BY <1>1, <1>2 DEF InTurn, Running, RunFits, Whole, Fits, Knows, Fresh, Lists

(* ProvInv is inductive. *)
LEMMA InTurnAtFirst == ProvInit => ProvInv
  <1> SUFFICES ASSUME ProvInit PROVE ProvInv
    OBVIOUS
  <1>1. ProvTypes
    BY NamesDiffer DEF ProvInit, ProvTypes, Places, Lists
  <1>2. InTurn
    BY NamesDiffer DEF ProvInit, InTurn, Fresh, Running, Whole, Saved, SavedLinkWorks
  <1>3. ListInv
    BY NamesDiffer DEF ProvInit, ListInv, ListsPurged, OwnOnly, RevokedStaysOut, Whole, Lists
  <1>. QED  BY <1>1, <1>2, <1>3 DEF ProvInv

(* No step breaks this. *)
LEMMA StaysInTurn ==
  ASSUME ProvInv, [ProvNext]_provVars
  PROVE  ProvInv'
  <1>1. ProvTypes /\ ProvTypes' /\ ListInv'
    BY TypesStay, ListsStay DEF ProvInv
  <1>2. SUFFICES ASSUME ~overlapped' PROVE InTurn'
    BY <1>1 DEF ProvInv
  <1>3. ASSUME NEW u \in Users, (\E command \in {"setup", "init"} : Setup(u, command)) \/ AdduserLoads(u)
        PROVE  InTurn'
    BY <1>1, <1>2, <1>3, BeginsInTurn
  <1>4. ASSUME NEW u \in Users, Keygen(u) \/ Revoke(u)
        PROVE  InTurn'
    BY <1>2, <1>4, EditsInTurn
  <1>5. ASSUME NEW u \in Users, Step(u) \/ Kill(u)
        PROVE  InTurn'
    <2>1. overlapped' = overlapped
      BY <1>5 DEF Step, Kill, AdduserReads, Truncate, Fill, FillFails, MoveTo
    <2>2. InTurn /\ ~overlapped
      BY <2>1, <1>2 DEF ProvInv
    <2>. QED  BY <2>2, <1>1, <1>5, ReadsInTurn, TruncatesInTurn, FillsInTurn, KilledInTurn DEF Step
  <1>6. CASE Start \/ Stop
    <2>1. InTurn /\ ~overlapped
      BY <1>2, <1>6 DEF ProvInv, Start, Stop
    <2>. QED  BY <2>1, <1>1, <1>6, StartsInTurn
  <1>7. CASE UNCHANGED provVars
    BY <1>2, <1>7 DEF provVars, runVars, ProvInv, InTurn, Fresh, Running, RunFits, Whole, Fits, Knows,
                      SavedLinkWorks, Lists
  <1>. QED  BY <1>3, <1>4, <1>5, <1>6, <1>7 DEF ProvNext

(* A link that was saved before the server started lets its holder in unless *)
(* its user was revoked or never got on the list: the commands save a link   *)
(* only after they have tried to write its entry, and keep the key of a      *)
(* configuration that exists.                                                *)
THEOREM LinksWork == ProvSpec => []SavedLinkWorks
  <1>1. ProvInv => SavedLinkWorks
    BY DEF ProvInv, InTurn, SavedLinkWorks
  <1>. QED  BY <1>1, InTurnAtFirst, StaysInTurn, PTL DEF ProvSpec

(* A user revoked before the server started stays out, whatever overlaps,    *)
(* unless a run had the user on a list it had yet to write: only such a run  *)
(* brings a user back (cmd_adduser.go:90-108).                               *)
THEOREM RevocationLasts == ProvSpec => []RevokedStaysOut
  <1>1. ProvInv => RevokedStaysOut
    BY DEF ProvInv, ListInv
  <1>. QED  BY <1>1, InTurnAtFirst, StaysInTurn, PTL DEF ProvSpec

----------------------------------------------------------------------------
(***************************************************************************)
(* The connections.  What has left the wire of one was peeked, or taken by *)
(* the server or the site; the client's holds frames of the data, and its  *)
(* reader is always where one of them begins.                              *)
(***************************************************************************)

(* What is on a connection, and where one may be. *)
Units == [t : {"token", "pad", "data", "real", "padding"}, v : Nat]
Stations == {"new", "backlog", "peek", "dial", "accepted", "forward", "closed"}

(* Every variable has its type. *)
CamTypes ==
  /\ sent \in [Conns -> Seq(Units)] /\ wire \in [Conns -> Seq(Units)]
  /\ peeked \in [Conns -> Seq(Units)] /\ toDest \in [Conns -> Seq(Units)]
  /\ ended \in [Conns -> BOOLEAN] /\ destOpen \in [Conns -> BOOLEAN]
  /\ place \in [Conns -> Stations]
  /\ writing \in Seq(Nat) /\ written \in Nat
  /\ phase \in {"token", "header", "payload"}
  /\ part \in Seq(Units) /\ want \in Nat

(* How much of a connection has left the wire, and how much of that was read *)
(* by those who have it now.                                                 *)
Left(c) == Len(sent[c]) - Len(wire[c])
Taken(c) == Left(c) - Len(peeked[c])

(* The wire and what was peeked are the last two pieces of what was sent. *)
Slices(c) ==
  /\ IsSlice(sent[c], wire[c], Left(c), Len(sent[c]))
  /\ IsSlice(sent[c], peeked[c], Taken(c), Left(c))
(* Nobody has taken any of it before the verdict, and a site that is there   *)
(* has what was taken since.                                                 *)
Transparent(c) ==
  /\ place[c] \in {"new", "backlog", "peek", "dial"} => Taken(c) = 0 /\ toDest[c] = <<>>
  /\ place[c] = "new" => sent[c] = <<>>
  /\ destOpen[c] => place[c] = "forward"
  /\ destOpen[c] => IsSlice(sent[c], toDest[c], 0, Taken(c))

(* What holds of every connection, the tunnel's and the probes'. *)
CamInv ==
  /\ CamTypes
  /\ place[Client] = "new" => writing = <<>>
  /\ \A c \in Conns : Slices(c) /\ Transparent(c)

----------------------------------------------------------------------------
(* The token, what a probe sends instead and every byte are units. *)
LEMMA UnitsAre ==
  /\ Token \in Units /\ Junk \in Units
  /\ \A d \in Nat : Byte(d) \in Units
  BY DEF Token, Junk, Byte, Units

(* Taking the first n units of a sequence leaves the rest. *)
LEMMA CutsAre ==
  ASSUME NEW s, NEW n
  PROVE  First(s, n) = SubSeq(s, 1, n) /\ Rest(s, n) = SubSeq(s, n + 1, Len(s))
  BY DEF First, Rest

(* A frame is a header of two units, the bytes and the padding; no length in *)
(* its header has wrapped.                                                   *)
LEMMA FrameIs ==
  ASSUME NEW bytes \in Seq(Nat), Len(bytes) < Width, NEW pad \in 0 .. MaxPad
  PROVE  /\ Frame(bytes, pad) \in Seq(Units)
         /\ Len(Frame(bytes, pad)) = 2 + Len(bytes) + pad
         /\ Frame(bytes, pad)[1] = [t |-> "real", v |-> Len(bytes)]
         /\ Frame(bytes, pad)[2] = [t |-> "padding", v |-> pad]
         /\ \A k \in 1 .. Len(bytes) : Frame(bytes, pad)[2 + k] = Byte(bytes[k])
  <1> DEFINE n == Len(bytes)
             head == <<[t |-> "real", v |-> n % Width], [t |-> "padding", v |-> pad % Width]>>
             filled == [k \in 1 .. n |-> Byte(bytes[k])]
             junk == [k \in 1 .. pad |-> Junk]
  <1>1. n \in Nat /\ pad \in Nat /\ n % Width = n /\ pad % Width = pad
    BY SizesAssumption
  <1>2. /\ head \in Seq(Units) /\ Len(head) = 2
        /\ head[1] = [t |-> "real", v |-> n] /\ head[2] = [t |-> "padding", v |-> pad]
    BY <1>1 DEF Units
  <1>3. filled \in Seq(Units) /\ Len(filled) = n /\ \A k \in 1 .. n : filled[k] = Byte(bytes[k])
    <2>1. \A k \in 1 .. n : bytes[k] \in Nat
      OBVIOUS
    <2>2. \A k \in 1 .. n : Byte(bytes[k]) \in Units
      BY <2>1, UnitsAre
    <2>. QED  BY <1>1, <2>2
  <1>4. junk \in Seq(Units) /\ Len(junk) = pad
    BY <1>1, UnitsAre
  <1>5. Frame(bytes, pad) = (head \o filled) \o junk
    BY DEF Frame
  <1> HIDE DEF head, filled, junk
  <1>6. /\ head \o filled \in Seq(Units) /\ Len(head \o filled) = 2 + n
        /\ \A k \in 1 .. 2 + n : (head \o filled)[k] = IF k <= 2 THEN head[k] ELSE filled[k - 2]
    <2>1. /\ head \o filled \in Seq(Units) /\ Len(head \o filled) = Len(head) + Len(filled)
          /\ \A k \in 1 .. Len(head) + Len(filled) :
               (head \o filled)[k] = IF k <= Len(head) THEN head[k] ELSE filled[k - Len(head)]
      <3>1. head \in Seq(Units) /\ filled \in Seq(Units)
        BY <1>2, <1>3
      <3>. QED  BY ONLY <3>1, ConcatProperties
    <2>. QED  BY ONLY <2>1, <1>1, <1>2, <1>3
  <1>7. /\ Frame(bytes, pad) \in Seq(Units) /\ Len(Frame(bytes, pad)) = 2 + n + pad
        /\ \A k \in 1 .. 2 + n : Frame(bytes, pad)[k] = (head \o filled)[k]
    <2> DEFINE front == head \o filled
    <2> HIDE DEF front
    <2>1. front \in Seq(Units) /\ Len(front) = 2 + n
      BY <1>6 DEF front
    <2>2. /\ front \o junk \in Seq(Units) /\ Len(front \o junk) = Len(front) + Len(junk)
          /\ \A k \in 1 .. Len(front) + Len(junk) :
               (front \o junk)[k] = IF k <= Len(front) THEN front[k] ELSE junk[k - Len(front)]
      <3>1. front \in Seq(Units) /\ junk \in Seq(Units)
        BY <2>1, <1>4, Zenon
      <3>. QED  BY ONLY <3>1, ConcatProperties
    <2>3. \A k \in 1 .. 2 + n : k \in 1 .. Len(front) + Len(junk) /\ k <= Len(front)
      BY ONLY <2>1, <1>1, <1>4
    <2>4. \A k \in 1 .. 2 + n : (front \o junk)[k] = front[k]
      BY <2>2, <2>3, Zenon
    <2>. QED  BY <2>1, <2>2, <2>4, <1>1, <1>4, <1>5 DEF front
  <1>8. \A k \in 1 .. n : Frame(bytes, pad)[2 + k] = filled[k]
    <2>1. SUFFICES ASSUME NEW k \in 1 .. n PROVE Frame(bytes, pad)[2 + k] = filled[k]
      OBVIOUS
    <2>2. 2 + k \in 1 .. 2 + n /\ ~(2 + k <= 2) /\ (2 + k) - 2 = k
      BY <1>1
    <2>. QED  BY <2>2, <1>6, <1>7
  <1>9. Frame(bytes, pad)[1] = head[1] /\ Frame(bytes, pad)[2] = head[2]
    <2>1. 1 \in 1 .. 2 + n /\ 2 \in 1 .. 2 + n /\ 1 <= 2 /\ 2 <= 2
      BY <1>1
    <2>2. (head \o filled)[1] = head[1] /\ (head \o filled)[2] = head[2]
      BY ONLY <2>1, <1>6
    <2>. QED  BY ONLY <2>1, <2>2, <1>7, Zenon
  <1>. QED  BY <1>2, <1>3, <1>7, <1>8, <1>9

(* Somebody takes the next k units of a connection.                          *)
LEMMA TakesNext ==
  ASSUME CamInv, NEW c \in Conns, NEW n \in Nat, NEW k \in Counts(c, n), Take(c, k),
         UNCHANGED sent
  PROVE  /\ k \in Nat /\ k <= n
         /\ wire' \in [Conns -> Seq(Units)] /\ peeked' \in [Conns -> Seq(Units)]
         /\ \A d \in Conns : d # c => wire'[d] = wire[d] /\ peeked'[d] = peeked[d]
         /\ IsSlice(sent[c], First(Source(c), k), Taken(c), Taken(c) + k)
         /\ Slices(c)' /\ Taken(c)' = Taken(c) + k
  <1>1. /\ sent[c] \in Seq(Units) /\ wire[c] \in Seq(Units) /\ peeked[c] \in Seq(Units)
        /\ Len(wire[c]) \in Nat /\ Len(peeked[c]) \in Nat
        /\ IsSlice(sent[c], wire[c], Left(c), Len(sent[c]))
        /\ IsSlice(sent[c], peeked[c], Taken(c), Left(c))
    BY DEF CamInv, CamTypes, Slices
  <1>2. /\ Taken(c) \in Nat /\ Left(c) \in Nat /\ Len(sent[c]) \in Nat
        /\ Left(c) = Taken(c) + Len(peeked[c]) /\ Len(sent[c]) = Left(c) + Len(wire[c])
    <2>1. Taken(c) \in Nat /\ Left(c) \in Nat /\ Len(sent[c]) \in Nat
      BY <1>1, LenProperties DEF IsSlice
    <2>2. Left(c) = Len(sent[c]) - Len(wire[c]) /\ Taken(c) = Left(c) - Len(peeked[c])
      BY DEF Left, Taken
    <2>3. Len(wire[c]) \in Nat /\ Len(peeked[c]) \in Nat
      BY <1>1
    <2>4. \A x, y, z \in Nat : z = x - y => x = z + y
      OBVIOUS
    <2>5. Left(c) = Taken(c) + Len(peeked[c])
      BY ONLY <2>1, <2>2, <2>3, <2>4
    <2>6. Len(sent[c]) = Left(c) + Len(wire[c])
      BY ONLY <2>1, <2>2, <2>3, <2>4
    <2>. QED  BY ONLY <2>1, <2>5, <2>6
  <1>3. CASE FromPeeked(c)
    <2>1. /\ k = Least(n, Len(peeked[c])) /\ Source(c) = peeked[c]
          /\ peeked' = [peeked EXCEPT ![c] = Rest(peeked[c], k)] /\ wire' = wire
      BY <1>3 DEF Counts, Source, Take
    <2>2. k \in 0 .. Len(peeked[c]) /\ k <= n
      BY <2>1, <1>1 DEF Least
    <2>3. /\ IsSlice(sent[c], First(peeked[c], k), Taken(c), Taken(c) + k)
          /\ IsSlice(sent[c], Rest(peeked[c], k), Taken(c) + k, Left(c))
      <3>1. k \in 0 .. Left(c) - Taken(c)
        BY <2>2, <1>2
      <3>. QED  BY <3>1, <1>1, SliceSplits DEF First, Rest
    <2>4. Rest(peeked[c], k) \in Seq(Units) /\ Len(Rest(peeked[c], k)) = Len(peeked[c]) - k
      <3>1. Rest(peeked[c], k) \in Seq(Units) /\ Len(Rest(peeked[c], k)) = Left(c) - (Taken(c) + k)
        BY <2>3, <1>1, SliceIsSeq
      <3>. QED  BY <3>1, <2>2, <1>1, <1>2
    <2>5. peeked' \in [Conns -> Seq(Units)] /\ peeked'[c] = Rest(peeked[c], k)
          /\ \A d \in Conns : d # c => peeked'[d] = peeked[d]
      BY <2>1, <2>4 DEF CamInv, CamTypes
    <2>6. Left(c)' = Left(c) /\ Taken(c)' = Taken(c) + k
      <3>1. Len(peeked'[c]) = Len(peeked[c]) - k /\ k \in Nat
        BY <2>2, <2>4, <2>5
      <3>2. Left(c)' = Left(c)
        BY <2>1 DEF Left
      <3>. QED  BY ONLY <3>1, <3>2, <1>1, <1>2 DEF Taken
    <2>7. Slices(c)'
      BY <2>1, <2>3, <2>5, <2>6, <1>1 DEF Slices
    <2>. QED  BY <2>1, <2>2, <2>3, <2>5, <2>6, <2>7 DEF CamInv, CamTypes
  <1>4. CASE ~FromPeeked(c)
    <2>1. /\ k \in 1 .. Least(n, Len(wire[c])) /\ Source(c) = wire[c]
          /\ wire' = [wire EXCEPT ![c] = Rest(wire[c], k)] /\ peeked' = peeked
          /\ peeked[c] = <<>> /\ Len(peeked[c]) = 0
      BY <1>4 DEF Counts, Source, Take, FromPeeked
    <2>2. k \in 0 .. Len(wire[c]) /\ k <= n
      BY <2>1, <1>1 DEF Least
    <2>3. /\ IsSlice(sent[c], First(wire[c], k), Left(c), Left(c) + k)
          /\ IsSlice(sent[c], Rest(wire[c], k), Left(c) + k, Len(sent[c]))
      <3>1. k \in 0 .. Len(sent[c]) - Left(c)
        BY <2>2, <1>2
      <3>. QED  BY <3>1, <1>1, SliceSplits DEF First, Rest
    <2>4. Rest(wire[c], k) \in Seq(Units) /\ Len(Rest(wire[c], k)) = Len(wire[c]) - k
      <3>1. Rest(wire[c], k) \in Seq(Units) /\ Len(Rest(wire[c], k)) = Len(sent[c]) - (Left(c) + k)
        BY <2>3, <1>1, SliceIsSeq
      <3>. QED  BY <3>1, <2>2, <1>1, <1>2
    <2>5. wire' \in [Conns -> Seq(Units)] /\ wire'[c] = Rest(wire[c], k)
          /\ \A d \in Conns : d # c => wire'[d] = wire[d]
      BY <2>1, <2>4 DEF CamInv, CamTypes
    <2>6. Left(c)' = Left(c) + k /\ Taken(c)' = Taken(c) + k /\ Taken(c) = Left(c)
      <3>1. Len(wire'[c]) = Len(wire[c]) - k /\ k \in Nat /\ sent'[c] = sent[c]
        BY <2>2, <2>4, <2>5
      <3>2. Left(c)' = Left(c) + k
        BY ONLY <3>1, <1>1, <1>2 DEF Left
      <3>. QED  BY ONLY <3>1, <3>2, <2>1, <1>2, peeked' = peeked DEF Taken
    <2>7. IsSlice(sent[c], <<>>, Left(c) + k, Left(c) + k)
      <3>1. Left(c) + k \in Nat /\ Left(c) + k <= Len(sent[c])
        BY <2>2, <1>2
      <3>. QED  BY <3>1, <1>1, EmptySlice
    <2>8. Slices(c)'
      BY <2>1, <2>3, <2>5, <2>6, <2>7 DEF Slices
    <2>. QED  BY <2>1, <2>2, <2>3, <2>5, <2>6, <2>8 DEF CamInv, CamTypes
  <1>. QED  BY <1>3, <1>4

(* A far end sends more: what was sent before stays where it is. *)
LEMMA SendsMore ==
  ASSUME CamInv, NEW c \in Conns, NEW units \in Seq(Units), Send(c, units),
         UNCHANGED <<peeked, toDest>>
  PROVE  /\ sent' \in [Conns -> Seq(Units)] /\ wire' \in [Conns -> Seq(Units)]
         /\ \A d \in Conns : d # c => sent'[d] = sent[d] /\ wire'[d] = wire[d]
         /\ sent'[c] = sent[c] \o units
         /\ Slices(c)' /\ Taken(c)' = Taken(c)
         /\ IsSlice(sent[c], toDest[c], 0, Taken(c)) => IsSlice(sent[c], toDest[c], 0, Taken(c))'
  <1>1. /\ sent[c] \in Seq(Units) /\ wire[c] \in Seq(Units) /\ peeked[c] \in Seq(Units)
        /\ Len(wire[c]) \in Nat /\ Len(peeked[c]) \in Nat /\ Len(sent[c]) \in Nat
        /\ IsSlice(sent[c], wire[c], Left(c), Len(sent[c]))
        /\ IsSlice(sent[c], peeked[c], Taken(c), Left(c))
    BY DEF CamInv, CamTypes, Slices
  <1>2. sent'[c] = sent[c] \o units /\ wire'[c] = wire[c] \o units
        /\ sent' \in [Conns -> Seq(Units)] /\ wire' \in [Conns -> Seq(Units)]
        /\ \A d \in Conns : d # c => sent'[d] = sent[d] /\ wire'[d] = wire[d]
    <2>1. sent[c] \o units \in Seq(Units) /\ wire[c] \o units \in Seq(Units)
      BY <1>1, ConcatProperties
    <2>. QED  BY <2>1 DEF Send, CamInv, CamTypes
  <1>3. /\ Len(sent'[c]) = Len(sent[c]) + Len(units) /\ Len(wire'[c]) = Len(wire[c]) + Len(units)
        /\ Len(units) \in Nat
    BY <1>1, <1>2, ConcatProperties
  <1>4. Left(c)' = Left(c) /\ Taken(c)' = Taken(c)
    BY <1>1, <1>3 DEF Left, Taken
  <1>5. IsSlice(sent'[c], peeked[c], Taken(c), Left(c))
    BY <1>1, <1>2, SliceKept
  <1>6. IsSlice(sent'[c], wire'[c], Left(c), Len(sent'[c]))
    <2>1. Left(c) \in Nat /\ Left(c) <= Len(sent[c]) /\ wire[c] = SubSeq(sent[c], Left(c) + 1, Len(sent[c]))
      BY <1>1 DEF IsSlice
    <2>2. wire'[c] = SubSeq(sent'[c], Left(c) + 1, Len(sent'[c]))
      <3>1. Left(c) + 1 \in 1 .. Len(sent[c]) + 1
        BY <2>1, <1>1
      <3>. QED  BY <2>1, <3>1, <1>1, <1>2, TailOfConcat
    <2>3. Left(c) <= Len(sent'[c]) /\ Len(sent'[c]) \in Nat
      BY ONLY <2>1, <1>1, <1>3
    <2>. QED  BY <2>1, <2>2, <2>3 DEF IsSlice
  <1>7. IsSlice(sent[c], toDest[c], 0, Taken(c)) => IsSlice(sent'[c], toDest[c], 0, Taken(c))
    BY <1>1, <1>2, SliceKept
  <1>. QED  BY <1>2, <1>4, <1>5, <1>6, <1>7 DEF Slices

(* A connection nobody touches stays as it is. *)
LEMMA UntouchedStays ==
  ASSUME NEW c \in Conns, Slices(c), Transparent(c),
         sent'[c] = sent[c], wire'[c] = wire[c], peeked'[c] = peeked[c],
         toDest'[c] = toDest[c], destOpen'[c] = destOpen[c], place'[c] = place[c]
  PROVE  Slices(c)' /\ Transparent(c)'
  <1>1. Left(c)' = Left(c) /\ Taken(c)' = Taken(c)
    BY DEF Left, Taken
  <1>. QED  BY <1>1 DEF Slices, Transparent

(* Enough for the step of one connection. *)
LEMMA OneTouched ==
  ASSUME CamInv, CamTypes', NEW c \in Conns, Slices(c)', Transparent(c)',
         \A d \in Conns : d # c =>
            /\ sent'[d] = sent[d] /\ wire'[d] = wire[d] /\ peeked'[d] = peeked[d]
            /\ toDest'[d] = toDest[d] /\ destOpen'[d] = destOpen[d] /\ place'[d] = place[d],
         (place[Client] = "new" => writing = <<>>)'
  PROVE  CamInv'
  BY UntouchedStays DEF CamInv

(* WriteFrame cuts what is to be written into what fits and the rest.        *)
LEMMA FrameCuts ==
  ASSUME writing \in Seq(Nat), writing # <<>>
  PROVE  /\ FrameLen \in 1 .. Len(writing) /\ FrameLen < Width
         /\ First(writing, FrameLen) \in Seq(Nat) /\ Len(First(writing, FrameLen)) = FrameLen
         /\ Rest(writing, FrameLen) \in Seq(Nat)
  <1> DEFINE n == FrameLen
  <1>1. Len(writing) \in Nat \ {0}
    BY EmptySeq
  <1>2. n \in 1 .. Len(writing) /\ n < Width
    BY <1>1, SizesAssumption DEF FrameLen, Least
  <1> HIDE DEF n
  <1>3. 1 \in 1 .. Len(writing) + 1 /\ n \in 1 - 1 .. Len(writing) /\ n - 1 + 1 = n
        /\ n + 1 \in 1 .. Len(writing) + 1 /\ Len(writing) \in (n + 1) - 1 .. Len(writing)
    BY <1>1, <1>2
  <1>4. SubSeq(writing, 1, n) \in Seq(Nat) /\ Len(SubSeq(writing, 1, n)) = n - 1 + 1
    BY <1>3, SliceType
  <1>5. SubSeq(writing, n + 1, Len(writing)) \in Seq(Nat)
    BY <1>3, SliceType
  <1>. QED  BY <1>2, <1>3, <1>4, <1>5 DEF First, Rest, n

(* The far ends. *)
LEMMA SendersStay ==
  ASSUME CamInv, NEW c \in Conns,
         Connect(c) \/ (c \in Probes /\ ProbeSends(c)) \/ (c = Client /\ WriteFrame)
  PROVE  CamInv'
  <1>1. PICK units \in Seq(Units) : Send(c, units)
    <2>1. CASE Connect(c)
      <3>1. <<Token>> \in Seq(Units) /\ <<>> \in Seq(Units)
        BY UnitsAre
      <3>. QED  BY <2>1, <3>1 DEF Connect
    <2>2. CASE c \in Probes /\ ProbeSends(c)
      <3>1. Len(sent[c]) \in Nat
        BY DEF CamInv, CamTypes
      <3>2. <<Byte(Len(sent[c]))>> \in Seq(Units)
        BY <3>1, UnitsAre
      <3>. QED  BY <2>2, <3>2 DEF ProbeSends
    <2>3. CASE c = Client /\ WriteFrame
      <3>1. First(writing, FrameLen) \in Seq(Nat) /\ Len(First(writing, FrameLen)) < Width
        BY <2>3, FrameCuts DEF WriteFrame, CamInv, CamTypes
      <3>3. PICK pad \in 0 .. MaxPad : Send(Client, Frame(First(writing, FrameLen), pad))
        BY <2>3 DEF WriteFrame
      <3>4. Frame(First(writing, FrameLen), pad) \in Seq(Units)
        BY <3>1, FrameIs
      <3>. QED  BY <2>3, <3>3, <3>4
    <2>. QED  BY <2>1, <2>2, <2>3
  <1>2. UNCHANGED <<peeked, toDest, destOpen, ended>>
    BY DEF Connect, ProbeSends, WriteFrame, fwdVars
  <1>3. /\ sent' \in [Conns -> Seq(Units)] /\ wire' \in [Conns -> Seq(Units)]
        /\ \A d \in Conns : d # c => sent'[d] = sent[d] /\ wire'[d] = wire[d]
        /\ sent'[c] = sent[c] \o units
        /\ Slices(c)' /\ Taken(c)' = Taken(c)
        /\ IsSlice(sent[c], toDest[c], 0, Taken(c)) => IsSlice(sent[c], toDest[c], 0, Taken(c))'
    BY <1>1, <1>2, SendsMore
  <1>4. /\ place' \in [Conns -> Stations] /\ \A d \in Conns : d # c => place'[d] = place[d]
        /\ place'[c] # "new"
        /\ place'[c] = place[c] \/ (place[c] = "new" /\ place'[c] = "backlog")
    <2>1. CASE Connect(c)
      BY <2>1 DEF Connect, CamInv, CamTypes, Stations
    <2>2. CASE ProbeSends(c)
      BY <2>2 DEF ProbeSends, CamInv, CamTypes
    <2>3. CASE c = Client /\ WriteFrame
      <3>1. place' = place /\ writing # <<>>
        BY <2>3 DEF WriteFrame
      <3>. QED  BY <2>3, <3>1 DEF CamInv, CamTypes
    <2>. QED  BY <2>1, <2>2, <2>3
  <1>5. Transparent(c)'
    <2>1. Transparent(c)
      BY DEF CamInv
    <2>. QED  BY <2>1, <1>2, <1>3, <1>4 DEF Transparent
  <1>6. /\ UNCHANGED <<written, phase, part, want>>
        /\ writing' \in Seq(Nat) /\ (place'[Client] = "new" => writing' = <<>>)
    <2>1. CASE Connect(c)
      BY <2>1, <1>4 DEF Connect, CamInv, CamTypes, writeVars, readVars
    <2>2. CASE ProbeSends(c)
      BY <2>2, <1>4 DEF ProbeSends, CamInv, CamTypes, writeVars, readVars
    <2>3. CASE c = Client /\ WriteFrame
      BY <2>3, <1>4, FrameCuts DEF WriteFrame, CamInv, CamTypes, writeVars, readVars
    <2>. QED  BY <2>1, <2>2, <2>3
  <1>7. CamTypes'
    BY <1>2, <1>3, <1>4, <1>6 DEF CamInv, CamTypes
  <1>. QED  BY <1>2, <1>3, <1>4, <1>5, <1>6, <1>7, OneTouched

(* A connection goes on to another place, or its end does; nothing is read.  *)
LEMMA MoversStay ==
  ASSUME CamInv, NEW c \in Conns,
         \/ Hangup(c) \/ Accept(c) \/ PeekEnds(c) \/ Dial(c)
         \/ CopyUpEnds(c) \/ CopyDownEnds(c) \/ CopyDownFails(c) \/ DestHangsUp(c)
         \/ ForwardReturns(c)
  PROVE  CamInv'
  <1> DEFINE Types == /\ ended' \in [Conns -> BOOLEAN] /\ destOpen' \in [Conns -> BOOLEAN]
                      /\ place' \in [Conns -> Stations]
             Others == \A d \in Conns : d # c => destOpen'[d] = destOpen[d] /\ place'[d] = place[d]
             Moves == /\ place[c] = "new" <=> place'[c] = "new"
                      /\ place'[c] \in {"new", "backlog", "peek", "dial"} =>
                           place[c] \in {"new", "backlog", "peek", "dial"}
                      /\ destOpen'[c] => place'[c] = "forward" /\ (destOpen[c] \/ place[c] = "dial")
  <1>1. UNCHANGED <<sent, wire, peeked, toDest, writing, written, phase, part, want>>
    BY DEF Hangup, Accept, PeekEnds, Dial, CopyUpEnds, CopyDownEnds, CopyDownFails, DestHangsUp,
           ForwardReturns, connVars, fwdVars, writeVars, readVars
  <1>2. destOpen[c] => place[c] = "forward"
    BY DEF CamInv, Transparent
  <1>3. Types /\ Others /\ Moves
    <2> USE DEF CamInv, CamTypes, Stations, connVars, fwdVars
    <2>1. CASE Hangup(c)
      BY <2>1, <1>2 DEF Hangup
    <2>2. CASE Accept(c)
      BY <2>2, <1>2 DEF Accept
    <2>3. CASE PeekEnds(c)
      BY <2>3, <1>2 DEF PeekEnds
    <2>4. CASE Dial(c)
      BY <2>4, <1>2 DEF Dial
    <2>5. CASE CopyUpEnds(c) \/ CopyDownEnds(c) \/ CopyDownFails(c)
      BY <2>5, <1>2 DEF CopyUpEnds, CopyDownEnds, CopyDownFails
    <2>6. CASE DestHangsUp(c)
      BY <2>6, <1>2 DEF DestHangsUp
    <2>7. CASE ForwardReturns(c)
      BY <2>7, <1>2 DEF ForwardReturns
    <2>. QED  BY <2>1, <2>2, <2>3, <2>4, <2>5, <2>6, <2>7
  <1> HIDE DEF Types, Others
  <1>4. CamTypes'
    BY <1>1, <1>3 DEF CamInv, CamTypes, Types
  <1>5. Left(c)' = Left(c) /\ Taken(c)' = Taken(c)
    BY <1>1 DEF Left, Taken
  <1>6. Slices(c)'
    BY <1>1, <1>5 DEF CamInv, Slices
  <1>7. IsSlice(sent[c], toDest[c], 0, Taken(c)) \/ ~destOpen'[c]
    <2>1. Transparent(c) /\ sent[c] \in Seq(Units)
      BY DEF CamInv, CamTypes
    <2>2. CASE place[c] = "dial"
      <3>1. Len(sent[c]) \in Nat
        BY <2>1
      <3>2. IsSlice(sent[c], <<>>, 0, 0)
        BY <2>1, <3>1, EmptySlice
      <3>. QED  BY <2>1, <2>2, <3>2 DEF Transparent
    <2>. QED  BY <2>1, <2>2, <1>3 DEF Transparent
  <1>8. Transparent(c)'
    BY <1>1, <1>3, <1>5, <1>7 DEF CamInv, Transparent
  <1>9. (place[Client] = "new" => writing = <<>>)'
    <2>1. place'[Client] = "new" => place[Client] = "new"
      BY <1>3 DEF Others, Conns
    <2>. QED  BY <2>1, <1>1 DEF CamInv
  <1>. QED  BY <1>1, <1>3, <1>4, <1>6, <1>8, <1>9, OneTouched DEF Others

(* The listener peeks. *)
LEMMA PeekerStays ==
  ASSUME CamInv, NEW c \in Conns, PeekReads(c)
  PROVE  CamInv'
  <1>1. /\ sent[c] \in Seq(Units) /\ wire[c] \in Seq(Units) /\ peeked[c] \in Seq(Units)
        /\ IsSlice(sent[c], wire[c], Left(c), Len(sent[c]))
        /\ IsSlice(sent[c], peeked[c], Taken(c), Left(c))
        /\ Transparent(c)
    BY DEF CamInv, CamTypes, Slices
  <1>2. PICK n \in 1 .. Least(Len(wire[c]), PeekLen - Len(peeked[c])) :
           /\ peeked' = [peeked EXCEPT ![c] = peeked[c] \o First(wire[c], n)]
           /\ wire' = [wire EXCEPT ![c] = Rest(wire[c], n)]
    BY DEF PeekReads
  <1>3. /\ place[c] = "peek"
        /\ UNCHANGED <<sent, ended, place, toDest, destOpen, writing, written, phase, part, want>>
    BY DEF PeekReads, fwdVars, writeVars, readVars
  <1>4. /\ Len(wire[c]) = Len(sent[c]) - Left(c) /\ Len(peeked[c]) = Left(c) - Taken(c)
        /\ Len(sent[c]) \in Nat /\ Left(c) \in Nat /\ Taken(c) \in Nat
        /\ Taken(c) <= Left(c) /\ Left(c) <= Len(sent[c])
    <2>1. Left(c) \in Nat /\ Taken(c) \in Nat /\ Taken(c) <= Left(c) /\ Left(c) <= Len(sent[c])
      BY <1>1 DEF IsSlice
    <2>. QED  BY <2>1, <1>1, SliceIsSeq
  <1>5. n \in 1 .. Len(wire[c]) /\ n \in 0 .. Len(sent[c]) - Left(c)
    <2>1. n \in 1 .. Len(wire[c])
      BY <1>2, <1>4, SizesAssumption DEF Least
    <2>. QED  BY <2>1, <1>4
  <1>6. /\ IsSlice(sent[c], First(wire[c], n), Left(c), Left(c) + n)
        /\ IsSlice(sent[c], Rest(wire[c], n), Left(c) + n, Len(sent[c]))
    BY <1>1, <1>5, SliceSplits DEF First, Rest
  <1>7. IsSlice(sent[c], peeked[c] \o First(wire[c], n), Taken(c), Left(c) + n)
    BY <1>1, <1>6, SlicesAppend
  <1>8. /\ Rest(wire[c], n) \in Seq(Units) /\ Len(Rest(wire[c], n)) = Len(sent[c]) - (Left(c) + n)
        /\ peeked[c] \o First(wire[c], n) \in Seq(Units)
        /\ Len(peeked[c] \o First(wire[c], n)) = (Left(c) + n) - Taken(c)
    <2>1. Rest(wire[c], n) \in Seq(Units) /\ Len(Rest(wire[c], n)) = Len(sent[c]) - (Left(c) + n)
      BY ONLY <1>1, <1>6, SliceIsSeq
    <2>2. /\ peeked[c] \o First(wire[c], n) \in Seq(Units)
          /\ Len(peeked[c] \o First(wire[c], n)) = (Left(c) + n) - Taken(c)
      <3> DEFINE q == peeked[c] \o First(wire[c], n)
      <3>1. IsSlice(sent[c], q, Taken(c), Left(c) + n)
        BY <1>7
      <3> HIDE DEF q
      <3>2. q \in Seq(Units) /\ Len(q) = (Left(c) + n) - Taken(c)
        BY ONLY <3>1, <1>1, SliceIsSeq
      <3>. QED  BY <3>2 DEF q
    <2>. QED  BY <2>1, <2>2
  <1>9. /\ wire' \in [Conns -> Seq(Units)] /\ peeked' \in [Conns -> Seq(Units)]
        /\ wire'[c] = Rest(wire[c], n) /\ peeked'[c] = peeked[c] \o First(wire[c], n)
        /\ \A d \in Conns : d # c => wire'[d] = wire[d] /\ peeked'[d] = peeked[d]
    BY <1>2, <1>8 DEF CamInv, CamTypes
  <1>10. Left(c)' = Left(c) + n /\ Taken(c)' = Taken(c)
    <2>1. Left(c)' = Len(sent[c]) - Len(Rest(wire[c], n))
          /\ Taken(c)' = Left(c)' - Len(peeked[c] \o First(wire[c], n))
      BY <1>3, <1>9 DEF Left, Taken
    <2>. QED  BY ONLY <2>1, <1>4, <1>5, <1>8
  <1>11. Slices(c)'
    BY <1>3, <1>6, <1>7, <1>9, <1>10 DEF Slices
  <1>12. Transparent(c)'
    BY <1>1, <1>3, <1>10 DEF Transparent
  <1>13. CamTypes'
    BY <1>3, <1>9 DEF CamInv, CamTypes
  <1>14. (place[Client] = "new" => writing = <<>>)'
    BY <1>3 DEF CamInv
  <1>. QED  BY <1>3, <1>9, <1>11, <1>12, <1>13, <1>14, OneTouched

(* A copy takes what is next to the site, if that is there. *)
LEMMA CopierStays ==
  ASSUME CamInv, NEW c \in Conns, CopyUp(c)
  PROVE  CamInv'
  <1> DEFINE n == Len(Source(c))
  <1>1. /\ sent[c] \in Seq(Units) /\ Source(c) \in Seq(Units) /\ toDest[c] \in Seq(Units)
        /\ n \in Nat /\ Transparent(c) /\ place[c] = "forward"
        /\ UNCHANGED <<sent, ended, place, destOpen, writing, written, phase, part, want>>
    <2>1. Source(c) \in Seq(Units) /\ sent[c] \in Seq(Units) /\ toDest[c] \in Seq(Units)
          /\ Transparent(c)
      BY DEF CamInv, CamTypes, Source
    <2>. QED  BY <2>1 DEF CopyUp, writeVars, readVars
  <1>2. PICK k \in Counts(c, n) :
           /\ Take(c, k)
           /\ IF destOpen[c]
                THEN toDest' = [toDest EXCEPT ![c] = toDest[c] \o First(Source(c), k)]
                ELSE toDest' = toDest
    BY DEF CopyUp
  <1>3. /\ k \in Nat
        /\ wire' \in [Conns -> Seq(Units)] /\ peeked' \in [Conns -> Seq(Units)]
        /\ \A d \in Conns : d # c => wire'[d] = wire[d] /\ peeked'[d] = peeked[d]
        /\ IsSlice(sent[c], First(Source(c), k), Taken(c), Taken(c) + k)
        /\ Slices(c)' /\ Taken(c)' = Taken(c) + k
    BY <1>1, <1>2, TakesNext
  <1> HIDE DEF n
  <1>4. toDest[c] \o First(Source(c), k) \in Seq(Units)
    BY <1>1, <1>3, SliceIsSeq, ConcatProperties
  <1>5. /\ toDest' \in [Conns -> Seq(Units)]
        /\ \A d \in Conns : d # c => toDest'[d] = toDest[d]
        /\ destOpen[c] => toDest'[c] = toDest[c] \o First(Source(c), k)
    BY <1>2, <1>4 DEF CamInv, CamTypes
  <1>6. destOpen[c] => IsSlice(sent[c], toDest[c] \o First(Source(c), k), 0, Taken(c) + k)
    BY <1>1, <1>3, SlicesAppend DEF Transparent
  <1>7. Transparent(c)'
    BY <1>1, <1>3, <1>5, <1>6 DEF Transparent
  <1>8. CamTypes'
    BY <1>1, <1>3, <1>5 DEF CamInv, CamTypes
  <1>9. (place[Client] = "new" => writing = <<>>)'
    BY <1>1 DEF CamInv
  <1>. QED  BY <1>1, <1>3, <1>5, <1>7, <1>8, <1>9, OneTouched

(* The application writes, and the server reads what it has accepted. *)
LEMMA WriterStays ==
  ASSUME CamInv, Write
  PROVE  CamInv'
  <1>1. PICK n \in written + 1 .. Len(Data) : writing' = SubSeq(Data, written + 1, n) /\ written' = n
    BY DEF Write
  <1>2. writing' \in Seq(Nat) /\ written' \in Nat
    <2>1. written \in Nat /\ Len(Data) \in Nat
      BY DataAssumption DEF CamInv, CamTypes
    <2>2. written + 1 \in 1 .. Len(Data) + 1 /\ n \in (written + 1) - 1 .. Len(Data) /\ n \in Nat
      BY <2>1
    <2>. QED  BY <1>1, <2>2, DataAssumption, SliceType
  <1>3. place[Client] # "new"
        /\ UNCHANGED <<sent, wire, ended, peeked, place, toDest, destOpen, phase, part, want>>
    BY DEF Write, connVars, fwdVars, readVars
  <1>. QED  BY <1>2, <1>3, UntouchedStays DEF CamInv, CamTypes

(* The server reads the tunnel of a client it has accepted. *)
LEMMA ReaderStays ==
  ASSUME CamInv, Receive
  PROVE  CamInv'
  <1>1. CASE ReadPart
    <2>1. /\ Client \in Conns /\ part \in Seq(Units) /\ want \in Nat /\ Len(part) \in Nat
          /\ want - Len(part) \in Nat /\ place[Client] = "accepted"
          /\ UNCHANGED <<sent, ended, place, toDest, destOpen, writing, written, phase, want>>
          /\ Source(Client) \in Seq(Units) /\ sent[Client] \in Seq(Units) /\ Transparent(Client)
      BY <1>1 DEF ReadPart, CamInv, CamTypes, Conns, fwdVars, writeVars, Source
    <2>2. PICK k \in Counts(Client, want - Len(part)) :
             Take(Client, k) /\ part' = part \o First(Source(Client), k)
      BY <1>1 DEF ReadPart
    <2>3. /\ k \in Nat
          /\ wire' \in [Conns -> Seq(Units)] /\ peeked' \in [Conns -> Seq(Units)]
          /\ \A d \in Conns : d # Client => wire'[d] = wire[d] /\ peeked'[d] = peeked[d]
          /\ IsSlice(sent[Client], First(Source(Client), k), Taken(Client), Taken(Client) + k)
          /\ Slices(Client)'
      BY <2>1, <2>2, TakesNext
    <2>4. part' \in Seq(Units)
      BY <2>1, <2>2, <2>3, SliceIsSeq, ConcatProperties
    <2>5. Transparent(Client)'
      BY <2>1 DEF Transparent
    <2>6. CamTypes'
      BY <2>1, <2>3, <2>4 DEF CamInv, CamTypes
    <2>7. (place[Client] = "new" => writing = <<>>)'
      BY <2>1
    <2>. QED  BY <2>1, <2>3, <2>5, <2>6, <2>7, OneTouched
  <1>2. CASE ReadToken \/ ReadHeader \/ ReadPayload \/ ReadLeftover
    <2>1. UNCHANGED <<sent, wire, ended, peeked, place, toDest, destOpen, writing, written>>
      BY <1>2 DEF ReadToken, ReadHeader, ReadPayload, ReadLeftover, connVars, fwdVars, writeVars
    <2>2. part' \in Seq(Units) /\ phase' \in {"token", "header", "payload"} /\ want' \in Nat
      <3>1. <<>> \in Seq(Units)
        OBVIOUS
      <3>2. CASE ReadHeader
        <4>1. Len(part) = 2 /\ part \in Seq(Units)
          BY <3>2 DEF ReadHeader, CamInv, CamTypes
        <4>2. part[1] \in Units /\ part[2] \in Units
          BY <4>1
        <4>3. Len(part) + Payload(part) \in Nat
          BY <4>1, <4>2 DEF Payload, Units
        <4>. QED  BY <3>2, <4>1, <4>3 DEF ReadHeader
      <3>3. CASE ReadToken \/ ReadPayload \/ ReadLeftover
        <4>1. CASE ReadToken
          BY <3>1, <4>1 DEF ReadToken
        <4>2. CASE ReadPayload
          BY <3>1, <4>2 DEF ReadPayload
        <4>3. CASE ReadLeftover
          <5>1. UNCHANGED <<phase, part, want>>
            BY <4>3 DEF ReadLeftover
          <5>. QED  BY <5>1 DEF CamInv, CamTypes
        <4>. QED  BY <3>3, <4>1, <4>2, <4>3
      <3>. QED  BY <1>2, <3>2, <3>3
    <2>. QED  BY <2>1, <2>2, UntouchedStays DEF CamInv, CamTypes
  <1>. QED  BY <1>1, <1>2 DEF Receive

(* CamInv is inductive. *)
LEMMA TransparentAtFirst == CamInit => CamInv
  <1> SUFFICES ASSUME CamInit PROVE CamInv
    OBVIOUS
  <1>1. <<>> \in Seq(Units) /\ <<>> \in Seq(Nat) /\ Len(<<>>) = 0
    OBVIOUS
  <1>2. CamTypes
    BY <1>1 DEF CamInit, CamTypes, Stations
  <1>3. IsSlice(<<>>, <<>>, 0, 0)
    BY SubSeqEmpty DEF IsSlice
  <1>4. ASSUME NEW c \in Conns PROVE Slices(c) /\ Transparent(c)
    <2>0. sent[c] = <<>> /\ wire[c] = <<>> /\ peeked[c] = <<>>
      BY DEF CamInit
    <2>1. Left(c) = 0 /\ Taken(c) = 0
      <3>1. 0 - 0 = 0
        OBVIOUS
      <3>2. Left(c) = 0
        BY <2>0, <1>1, <3>1, Zenon DEF Left
      <3>. QED  BY <2>0, <1>1, <3>1, <3>2, Zenon DEF Taken
    <2>. QED  BY <2>0, <2>1, <1>1, <1>3 DEF CamInit, Slices, Transparent
  <1>. QED  BY <1>2, <1>4 DEF CamInit, CamInv

(* No step disturbs the connections. *)
LEMMA StaysTransparent ==
  ASSUME CamInv, [CamNext]_camVars
  PROVE  CamInv'
  <1>1. CASE UNCHANGED camVars
    BY <1>1, UntouchedStays DEF camVars, connVars, fwdVars, writeVars, readVars, CamInv, CamTypes
  <1>2. ASSUME NEW c \in Conns, Connect(c) \/ (c \in Probes /\ ProbeSends(c)) PROVE CamInv'
    BY <1>2, SendersStay
  <1>3. ASSUME NEW c \in Conns, Hangup(c) \/ Listen(c) \/ Forward(c) \/ CopyDownFails(c) \/ DestHangsUp(c)
        PROVE  CamInv'
    BY <1>3, MoversStay, PeekerStays, CopierStays DEF Listen, Forward
  <1>4. CASE WriteFrame
    BY <1>4, SendersStay DEF Conns
  <1>5. CASE Write \/ Receive
    BY <1>5, WriterStays, ReaderStays
  <1>6. Probes \subseteq Conns
    BY DEF Conns
  <1>. QED  BY <1>1, <1>2, <1>3, <1>4, <1>5, <1>6 DEF CamNext

(* Peeking is transparent: what reaches the site is what the probe sent, in  *)
(* order, and nothing is missing that is not still to be read (PeekConn.Read *)
(* gives io.Copy the peeked bytes first).                                    *)
THEOREM PeekingIsTransparent == CamSpec => []DestSeesProbe
  <1>1. CamInv => DestSeesProbe
    <2> SUFFICES ASSUME CamInv, NEW c \in Conns, destOpen[c]
                 PROVE  toDest[c] \o peeked[c] \o wire[c] = sent[c]
      BY DEF DestSeesProbe
    <2>1. /\ sent[c] \in Seq(Units)
          /\ IsSlice(sent[c], toDest[c], 0, Taken(c))
          /\ IsSlice(sent[c], peeked[c], Taken(c), Left(c))
          /\ IsSlice(sent[c], wire[c], Left(c), Len(sent[c]))
      BY DEF CamInv, CamTypes, Slices, Transparent
    <2>2. IsSlice(sent[c], toDest[c] \o peeked[c], 0, Left(c))
      BY <2>1, SlicesAppend
    <2>3. IsSlice(sent[c], (toDest[c] \o peeked[c]) \o wire[c], 0, Len(sent[c]))
      BY <2>1, <2>2, SlicesAppend
    <2>4. (toDest[c] \o peeked[c]) \o wire[c] = SubSeq(sent[c], 1, Len(sent[c]))
      BY <2>3 DEF IsSlice
    <2>. QED  BY <2>1, <2>4, SubSeqFull
  <1>. QED  BY <1>1, TransparentAtFirst, StaysTransparent, PTL DEF CamSpec

----------------------------------------------------------------------------
(* The data as units; where a frame that begins after p units of s ends; and *)
(* what such a frame is: its header, and the data that comes next.           *)
Bytes == [k \in 1 .. Len(Data) |-> Byte(Data[k])]
FrameEnd(s, p) == p + 2 + s[p + 1].v + s[p + 2].v
FrameAt(off, s, p) ==
  /\ p + 2 <= Len(s)
  /\ FrameEnd(s, p) \in DOMAIN off
  /\ off[FrameEnd(s, p)] = off[p] + s[p + 1].v
  /\ \A k \in 1 .. s[p + 1].v : s[p + 2 + k] = Byte(Data[off[p] + k])

(* s is a token and frames that hold the first w bytes of the data: off[p] is*)
(* how many come in the frames that end within the first p units.            *)
Framing(off, s, w) ==
  /\ DOMAIN off \subseteq 1 .. Len(s)
  /\ 1 \in DOMAIN off /\ off[1] = 0
  /\ Len(s) \in DOMAIN off /\ off[Len(s)] = w
  /\ \A p \in DOMAIN off : off[p] \in 0 .. w
  /\ \A p \in DOMAIN off : p < Len(s) => FrameAt(off, s, p)

(* How many bytes were put into frames. *)
Framed == written - Len(writing)
(* How many bytes came out of the frames, and where the frame begins that    *)
(* the server is in.                                                         *)
Unframed == Len(rcvd) + Len(rBuf)
At == Taken(Client) - Len(part)
(* What is read of the frame is what was sent from there on. *)
Reading(off) ==
  place[Client] = "accepted" =>
    /\ IsSlice(sent[Client], part, At, Taken(Client))
    /\ phase = "token" => At = 0
    /\ phase # "token" => At \in DOMAIN off /\ off[At] = Unframed

(* What the client still has to write and what the server has read are       *)
(* pieces of the data.                                                       *)
Sides ==
  /\ IsSlice(Data, writing, Framed, written)
  /\ IsSlice(Bytes, rcvd, 0, Len(rcvd)) /\ IsSlice(Bytes, rBuf, Len(rcvd), Unframed)
  /\ place[Client] = "new" => written = 0
(* What the reader waits for is what its phase says. *)
Phases ==
  /\ phase = "token" => Unframed = 0 /\ want = 1
  /\ phase = "header" => want = 2
  /\ phase = "payload" =>
       rBuf = <<>> /\ Len(part) >= 2 /\ want = 2 + part[1].v + part[2].v
  /\ Len(part) <= want
  /\ place[Client] # "accepted" => phase = "token" /\ part = <<>>

(* The client's connection carries the data in frames, and its reader is     *)
(* where one of them begins.                                                 *)
TunInv ==
  /\ CamInv /\ Sides /\ Phases
  /\ place[Client] # "new" =>
       \E off : Framing(off, sent[Client], Framed) /\ Reading(off)

(* The data are units. *)
LEMMA BytesAre ==
  /\ Bytes \in Seq(Units) /\ Len(Bytes) = Len(Data) /\ Len(Data) \in Nat
  /\ \A k \in 1 .. Len(Data) : Bytes[k] = Byte(Data[k])
  <1>1. Data \in Seq(Nat) /\ Len(Data) \in Nat
    BY DataAssumption
  <1>2. \A k \in 1 .. Len(Data) : Data[k] \in Nat
    BY <1>1
  <1>3. \A k \in 1 .. Len(Data) : Byte(Data[k]) \in Units
    BY <1>2, UnitsAre
  <1>. QED  BY <1>1, <1>3 DEF Bytes

(* The first m bytes, as the reliable stream has them. *)
LEMMA FirstBytes ==
  ASSUME NEW m \in 0 .. Len(Data)
  PROVE  SubSeq(Bytes, 1, m) = [k \in 1 .. m |-> Byte(Data[k])]
  <1>1. 1 \in 1 .. Len(Bytes) + 1 /\ m \in 1 - 1 .. Len(Bytes) /\ m - 1 + 1 = m /\ m \in Nat
    BY BytesAre
  <1>2. /\ SubSeq(Bytes, 1, m) \in Seq(Units) /\ Len(SubSeq(Bytes, 1, m)) = m
        /\ \A k \in 1 .. m : SubSeq(Bytes, 1, m)[k] = Bytes[1 + k - 1]
    <2>1. /\ SubSeq(Bytes, 1, m) \in Seq(Units) /\ Len(SubSeq(Bytes, 1, m)) = m - 1 + 1
          /\ \A k \in 1 .. m - 1 + 1 : SubSeq(Bytes, 1, m)[k] = Bytes[1 + k - 1]
      BY <1>1, BytesAre, SliceType
    <2>. QED  BY <2>1, <1>1
  <1>3. \A k \in 1 .. m : k \in 1 .. Len(Data) /\ 1 + k - 1 = k
    BY BytesAre
  <1>4. \A k \in 1 .. m : SubSeq(Bytes, 1, m)[k] = Byte(Data[k])
    BY <1>2, <1>3, BytesAre
  <1>5. /\ [k \in 1 .. m |-> Byte(Data[k])] \in Seq(Units)
        /\ Len([k \in 1 .. m |-> Byte(Data[k])]) = m
    <2>1. \A k \in 1 .. m : Byte(Data[k]) \in Units
      <3>1. \A k \in 1 .. m : Data[k] \in Nat
        BY <1>3, DataAssumption
      <3>. QED  BY <3>1, UnitsAre
    <2>. QED  BY <2>1, <1>1
  <1>6. \A k \in 1 .. m : SubSeq(Bytes, 1, m)[k] = [j \in 1 .. m |-> Byte(Data[j])][k]
    BY <1>4
  <1>. QED  BY <1>2, <1>5, <1>6, SeqEqual

(* One frame more, with the bytes that come next. *)
LEMMA FramingGrows ==
  ASSUME NEW s \in Seq(Units), NEW off, NEW w, Framing(off, s, w),
         NEW bytes \in Seq(Nat), IsSlice(Data, bytes, w, w + Len(bytes)), Len(bytes) < Width,
         NEW pad \in 0 .. MaxPad
  PROVE  \E more : /\ Framing(more, s \o Frame(bytes, pad), w + Len(bytes))
                   /\ \A p \in DOMAIN off : p \in DOMAIN more /\ more[p] = off[p]
  <1> DEFINE f == Frame(bytes, pad)
             t == s \o f
             n == Len(bytes)
             l == Len(s)
             e == Len(t)
             more == [p \in DOMAIN off \cup {e} |-> IF p = e THEN w + n ELSE off[p]]
  <1>1. /\ f \in Seq(Units) /\ Len(f) = 2 + n + pad
        /\ f[1] = [t |-> "real", v |-> n] /\ f[2] = [t |-> "padding", v |-> pad]
        /\ \A k \in 1 .. n : f[2 + k] = Byte(bytes[k])
    BY FrameIs
  <1>2. n \in Nat /\ l \in Nat /\ pad \in Nat
    BY SizesAssumption
  <1>3. /\ t \in Seq(Units) /\ Len(t) = l + Len(f)
        /\ \A k \in 1 .. l + Len(f) : t[k] = IF k <= l THEN s[k] ELSE f[k - l]
    BY <1>1, ConcatProperties
  <1> HIDE DEF f, t, n, l
  <1>4. /\ e = l + 2 + n + pad /\ e \in Nat /\ l < e
        /\ \A k \in 1 .. l : t[k] = s[k]
        /\ \A k \in 1 .. 2 + n + pad : t[l + k] = f[k]
    <2>1. e = l + 2 + n + pad /\ e \in Nat /\ l < e
      BY ONLY <1>1, <1>2, <1>3
    <2>2. \A k \in 1 .. l : t[k] = s[k]
      BY ONLY <1>1, <1>2, <1>3
    <2>3. \A k \in 1 .. 2 + n + pad : /\ l + k \in 1 .. l + Len(f) /\ ~(l + k <= l)
                                      /\ (l + k) - l = k
      BY ONLY <1>1, <1>2
    <2>. QED  BY ONLY <2>1, <2>2, <2>3, <1>3
  <1> HIDE DEF e
  <1>5. /\ DOMAIN off \subseteq 1 .. l /\ 1 \in DOMAIN off /\ off[1] = 0
        /\ l \in DOMAIN off /\ off[l] = w
        /\ \A p \in DOMAIN off : off[p] \in 0 .. w
        /\ \A p \in DOMAIN off : p < l => FrameAt(off, s, p)
        /\ w \in Nat
    <2>1. w \in Nat
      BY DEF IsSlice
    <2>. QED  BY <2>1 DEF Framing, l
  <1>6. /\ DOMAIN more = DOMAIN off \cup {e} /\ more[e] = w + n
        /\ \A p \in DOMAIN off : p \in DOMAIN more /\ more[p] = off[p] /\ p # e
    BY <1>2, <1>4, <1>5
  <1> HIDE DEF more
  <1>7. ASSUME NEW p \in DOMAIN off, p < l
        PROVE  FrameAt(more, t, p)
    <2>1. /\ p + 2 <= l /\ FrameEnd(s, p) \in DOMAIN off /\ p \in Nat
          /\ off[FrameEnd(s, p)] = off[p] + s[p + 1].v
          /\ \A k \in 1 .. s[p + 1].v : s[p + 2 + k] = Byte(Data[off[p] + k])
      BY <1>5, <1>7, <1>2 DEF FrameAt, l
    <2>2. t[p + 1] = s[p + 1] /\ t[p + 2] = s[p + 2]
      <3>1. p + 1 \in 1 .. l /\ p + 2 \in 1 .. l
        BY <2>1, <1>2
      <3>. QED  BY <3>1, <1>4
    <2>3. FrameEnd(t, p) = FrameEnd(s, p)
      BY <2>2 DEF FrameEnd
    <2>4. s[p + 1].v \in Nat /\ s[p + 2].v \in Nat /\ FrameEnd(s, p) <= l
      <3>1. p + 1 \in 1 .. Len(s) /\ p + 2 \in 1 .. Len(s)
        BY <2>1, <1>2 DEF l
      <3>2. s[p + 1] \in Units /\ s[p + 2] \in Units
        BY <3>1, ElementOfSeq
      <3>3. s[p + 1].v \in Nat /\ s[p + 2].v \in Nat
        BY ONLY <3>2 DEF Units
      <3>4. FrameEnd(s, p) \in 1 .. l
        BY <2>1, <1>5, Zenon
      <3>. QED  BY ONLY <3>3, <3>4, <1>2
    <2>5. \A k \in 1 .. s[p + 1].v : p + 2 + k \in 1 .. l
      <3>1. p + 2 + s[p + 1].v <= l
        <4>1. \A a, b, x, y \in Nat : x + 2 + a + b <= y => x + 2 + a <= y
          OBVIOUS
        <4>2. p + 2 + s[p + 1].v + s[p + 2].v <= l
          BY <2>4, Zenon DEF FrameEnd
        <4>. QED  BY <4>1, <4>2, <2>1, <2>4, <1>2, Zenon
      <3>2. \A x, y, h, k \in Nat : x + 2 + h <= y /\ 1 <= k /\ k <= h
                                      => 1 <= x + 2 + k /\ x + 2 + k <= y
        OBVIOUS
      <3>3. p \in Nat /\ l \in Nat
        BY <2>1, <1>2
      <3>4. SUFFICES ASSUME NEW k \in 1 .. s[p + 1].v PROVE p + 2 + k \in 1 .. l
        OBVIOUS
      <3>5. k \in Nat /\ 1 <= k /\ k <= s[p + 1].v
        BY <2>4
      <3>6. 1 <= p + 2 + k /\ p + 2 + k <= l
        BY <3>1, <3>2, <3>3, <3>5, <2>4, Zenon
      <3>. QED  BY ONLY <3>3, <3>5, <3>6
    <2>6. ASSUME NEW k \in 1 .. t[p + 1].v PROVE t[p + 2 + k] = Byte(Data[more[p] + k])
      <3>1. k \in 1 .. s[p + 1].v
        BY <2>2, Zenon
      <3>2. t[p + 2 + k] = s[p + 2 + k]
        BY <3>1, <2>5, <1>4, Zenon
      <3>3. s[p + 2 + k] = Byte(Data[off[p] + k])
        BY <3>1, <2>1, Zenon
      <3>4. more[p] = off[p]
        BY <1>6, Zenon
      <3>. QED  BY <3>2, <3>3, <3>4, Zenon
    <2>7. p + 2 <= Len(t)
      BY <2>1, <1>2, <1>4 DEF e
    <2>. QED  BY <2>1, <2>2, <2>3, <2>6, <2>7, <1>6 DEF FrameAt
  <1>8. FrameAt(more, t, l)
    <2>1. t[l + 1] = f[1] /\ t[l + 2] = f[2]
      BY <1>2, <1>4
    <2>2. t[l + 1].v = n /\ t[l + 2].v = pad
      BY <2>1, <1>1
    <2>3. FrameEnd(t, l) = e
      BY ONLY <2>2, <1>4, <1>2 DEF FrameEnd
    <2>4. ASSUME NEW k \in 1 .. n PROVE t[l + 2 + k] = Byte(Data[w + k])
      <3>1. t[l + (2 + k)] = f[2 + k] /\ l + (2 + k) = l + 2 + k
        <4>1. 2 + k \in 1 .. 2 + n + pad /\ l + (2 + k) = l + 2 + k
          BY <1>2
        <4>. QED  BY <4>1, <1>4
      <3>2. bytes[k] = Data[w + k]
        <4>1. /\ w + 1 \in 1 .. Len(Data) + 1 /\ w + n \in (w + 1) - 1 .. Len(Data)
              /\ (w + n) - (w + 1) + 1 = n /\ bytes = SubSeq(Data, w + 1, w + n)
          BY <1>2, <1>5, BytesAre DEF IsSlice, n
        <4>2. \A j \in 1 .. (w + n) - (w + 1) + 1 : SubSeq(Data, w + 1, w + n)[j] = Data[(w + 1) + j - 1]
          BY ONLY <4>1, DataAssumption, SliceType
        <4>3. (w + 1) + k - 1 = w + k /\ k \in 1 .. (w + n) - (w + 1) + 1
          BY <4>1, <1>5, <1>2
        <4>. QED  BY <4>1, <4>2, <4>3
      <3>. QED  BY <3>1, <3>2, <1>1
    <2>5. l + 2 <= Len(t)
      BY ONLY <1>2, <1>4 DEF e
    <2>6. more[l] = w
      BY <1>5, <1>6
    <2>. QED  BY <2>2, <2>3, <2>4, <2>5, <2>6, <1>6 DEF FrameAt
  <1>9. Framing(more, t, w + n)
    <2>1. DOMAIN more \subseteq 1 .. Len(t)
      BY <1>2, <1>4, <1>5, <1>6 DEF e
    <2>2. \A p \in DOMAIN more : more[p] \in 0 .. w + n
      BY <1>2, <1>5, <1>6
    <2>3. \A p \in DOMAIN more : p < Len(t) => FrameAt(more, t, p)
      <3>1. SUFFICES ASSUME NEW p \in DOMAIN more, p < e PROVE FrameAt(more, t, p)
        BY DEF e
      <3>2. p \in DOMAIN off
        BY <3>1, <1>4, <1>6
      <3>3. p < l \/ p = l
        BY <3>2, <1>2, <1>5
      <3>. QED  BY <3>2, <3>3, <1>7, <1>8
    <2>4. 1 \in DOMAIN more /\ more[1] = 0
      BY <1>5, <1>6
    <2>5. Len(t) \in DOMAIN more /\ more[Len(t)] = w + n
      BY <1>6 DEF e
    <2>. QED  BY <2>1, <2>2, <2>3, <2>4, <2>5 DEF Framing
  <1>. QED  BY <1>6, <1>9 DEF t, f, n

(* What TunInv says of the numbers. *)
LEMMA TunnelCounts ==
  ASSUME TunInv
  PROVE  /\ Client \in Conns /\ sent[Client] \in Seq(Units) /\ Len(sent[Client]) \in Nat
         /\ Taken(Client) \in Nat /\ Taken(Client) <= Len(sent[Client])
         /\ part \in Seq(Units) /\ Len(part) \in Nat
         /\ rcvd \in Seq(Units) /\ Len(rcvd) \in Nat
         /\ rBuf \in Seq(Units) /\ Len(rBuf) \in Nat /\ Unframed = Len(rcvd) + Len(rBuf)
         /\ writing \in Seq(Nat) /\ Len(writing) \in Nat /\ written \in Nat
         /\ Framed \in Nat /\ written = Framed + Len(writing) /\ written <= Len(Data)
  <1>1. Client \in Conns
    BY DEF Conns
  <1>2. /\ sent[Client] \in Seq(Units) /\ part \in Seq(Units)
        /\ writing \in Seq(Nat) /\ written \in Nat
        /\ IsSlice(sent[Client], wire[Client], Left(Client), Len(sent[Client]))
        /\ IsSlice(sent[Client], peeked[Client], Taken(Client), Left(Client))
    BY <1>1 DEF TunInv, CamInv, CamTypes, Slices
  <1>3. /\ IsSlice(Data, writing, Framed, written) /\ IsSlice(Bytes, rcvd, 0, Len(rcvd))
        /\ IsSlice(Bytes, rBuf, Len(rcvd), Unframed)
    BY DEF TunInv, Sides
  <1>4. rcvd \in Seq(Units) /\ rBuf \in Seq(Units)
    BY <1>3, BytesAre, SliceIsSeq
  <1>5. Taken(Client) \in Nat /\ Taken(Client) <= Len(sent[Client]) /\ Len(sent[Client]) \in Nat
    <2>1. Taken(Client) \in Nat /\ Left(Client) \in Nat /\ Taken(Client) <= Left(Client)
          /\ Left(Client) <= Len(sent[Client]) /\ Len(sent[Client]) \in Nat
      BY <1>2 DEF IsSlice
    <2>. QED  BY <2>1
  <1>6. Framed \in Nat /\ written <= Len(Data) /\ Len(writing) \in Nat
    BY <1>2, <1>3 DEF IsSlice
  <1>7. written = Framed + Len(writing)
    BY ONLY <1>2, <1>6 DEF Framed
  <1>. QED  BY <1>1, <1>2, <1>4, <1>5, <1>6, <1>7 DEF Unframed

(* A step that touches neither the client's data nor what the server reads.  *)
LEMMA TunnelUntouched ==
  ASSUME TunInv, CamInv', UNCHANGED <<writing, written, phase, part, want, rBuf, rcvd>>,
         sent'[Client] = sent[Client],
         place'[Client] = "new" <=> place[Client] = "new",
         place'[Client] = "accepted" <=> place[Client] = "accepted",
         place[Client] = "accepted" => Taken(Client)' = Taken(Client)
  PROVE  TunInv'
  <1>1. Framed' = Framed /\ Unframed' = Unframed
    BY DEF Framed, Unframed
  <1>2. Sides' /\ Phases'
    BY <1>1 DEF TunInv, Sides, Phases
  <1>3. place[Client] = "accepted" => At' = At
    BY DEF At
  <1>4. \A off : Framing(off, sent[Client], Framed) /\ Reading(off)
                   => Framing(off, sent'[Client], Framed') /\ Reading(off)'
    BY <1>1, <1>3 DEF Reading
  <1>. QED  BY <1>2, <1>4 DEF TunInv

(* The tunnel at first, and when the client has connected. *)
LEMMA TunnelAtFirst == CamInit => TunInv
  <1> SUFFICES ASSUME CamInit PROVE TunInv
    OBVIOUS
  <1>1. /\ Client \in Conns /\ place[Client] = "new" /\ phase = "token" /\ part = <<>> /\ want = 1
        /\ writing = <<>> /\ written = 0 /\ rcvd = <<>> /\ rBuf = <<>>
    BY DEF CamInit, Conns
  <1>2. Len(writing) = 0 /\ Len(rcvd) = 0 /\ Len(rBuf) = 0 /\ Len(part) = 0
    BY <1>1
  <1>3. Framed = 0 /\ Unframed = 0
    <2>1. 0 - 0 = 0 /\ 0 + 0 = 0
      OBVIOUS
    <2>. QED  BY <2>1, <1>1, <1>2, Zenon DEF Framed, Unframed
  <1>4. IsSlice(Data, <<>>, 0, 0) /\ IsSlice(Bytes, <<>>, 0, 0)
    <2>1. 0 <= Len(Data) /\ 0 <= Len(Bytes) /\ 0 \in Nat
      BY BytesAre
    <2>. QED  BY <2>1, BytesAre, DataAssumption, EmptySlice
  <1>5. Sides
    BY <1>1, <1>2, <1>3, <1>4 DEF Sides
  <1>6. Phases
    BY <1>1, <1>2, <1>3 DEF Phases
  <1>. QED  BY <1>1, <1>5, <1>6, TransparentAtFirst DEF TunInv

(* The client sends its token before any frame. *)
LEMMA ClientConnects ==
  ASSUME TunInv, CamInv', Connect(Client)
  PROVE  TunInv'
  <1>1. /\ Client \in Conns /\ place[Client] = "new" /\ place'[Client] = "backlog"
        /\ sent[Client] = <<>> /\ writing = <<>> /\ written = 0
        /\ sent'[Client] = sent[Client] \o <<Token>>
        /\ UNCHANGED <<writing, written, phase, part, want, rBuf, rcvd>>
    <2>1. Client \in Conns
      BY DEF Conns
    <2>. QED  BY <2>1 DEF Connect, Send, TunInv, CamInv, CamTypes, Transparent, Sides, writeVars, readVars
  <1>2. Framed' = Framed /\ Unframed' = Unframed /\ Framed = 0
    <2>1. Len(writing) = 0 /\ 0 - 0 = 0
      BY <1>1
    <2>2. Framed = 0
      BY <2>1, <1>1, Zenon DEF Framed
    <2>. QED  BY <2>2, <1>1, Zenon DEF Framed, Unframed
  <1>3. Sides' /\ Phases'
    BY <1>1, <1>2 DEF TunInv, Sides, Phases
  <1>4. Len(sent'[Client]) = 1
    BY <1>1
  <1>5. Framing([p \in {1} |-> 0], sent'[Client], 0)
    BY <1>4 DEF Framing
  <1>6. \A off : Reading(off)'
    BY <1>1 DEF Reading
  <1>. QED  BY <1>2, <1>3, <1>5, <1>6 DEF TunInv

(* The application writes: the next piece of the data is to be framed. *)
LEMMA ClientWrites ==
  ASSUME TunInv, CamInv', Write
  PROVE  /\ TunInv'
         /\ written' \in written .. Len(Data)
  <1>1. PICK n \in written + 1 .. Len(Data) : writing' = SubSeq(Data, written + 1, n) /\ written' = n
    BY DEF Write
  <1>2. /\ place[Client] # "new" /\ writing = <<>> /\ Len(writing) = 0
        /\ UNCHANGED <<sent, wire, peeked, place, phase, part, want, rBuf, rcvd>>
    BY DEF Write, connVars, readVars
  <1>3. /\ written \in Nat /\ Len(Data) \in Nat /\ n \in Nat /\ n >= written /\ n <= Len(Data)
        /\ Framed = written
    <2>1. written \in Nat /\ Framed \in Nat /\ written = Framed + Len(writing) /\ Len(Data) \in Nat
      BY TunnelCounts, BytesAre
    <2>. QED  BY ONLY <2>1, <1>1, <1>2
  <1>4. IsSlice(Data, writing', written, written')
    BY <1>1, <1>3 DEF IsSlice
  <1>5. Framed' = Framed /\ Unframed' = Unframed
    <2>1. Len(writing') = written' - written
      BY <1>4, DataAssumption, SliceIsSeq
    <2>. QED  BY ONLY <2>1, <1>1, <1>2, <1>3 DEF Framed, Unframed
  <1>6. Sides'
    BY <1>2, <1>3, <1>4, <1>5 DEF TunInv, Sides
  <1>7. Phases'
    BY <1>2, <1>5 DEF TunInv, Phases
  <1>8. Taken(Client)' = Taken(Client) /\ At' = At
    BY <1>2 DEF Taken, Left, At
  <1>9. \A off : Framing(off, sent[Client], Framed) /\ Reading(off)
                   => Framing(off, sent'[Client], Framed') /\ Reading(off)'
    BY <1>2, <1>5, <1>8 DEF Reading
  <1>. QED  BY <1>1, <1>2, <1>3, <1>6, <1>7, <1>9 DEF TunInv

(* A frame goes out, with the bytes that come next. *)
LEMMA FrameGoesOut ==
  ASSUME TunInv, CamInv', WriteFrame
  PROVE  TunInv'
  <1> DEFINE n == FrameLen
             bytes == First(writing, n)
             s == sent[Client]
  <1>1. /\ n \in 1 .. Len(writing) /\ n < Width
        /\ bytes \in Seq(Nat) /\ Len(bytes) = n /\ Rest(writing, n) \in Seq(Nat)
        /\ writing # <<>> /\ writing' = Rest(writing, n)
        /\ place[Client] # "new"
        /\ UNCHANGED <<peeked, place, toDest, written, phase, part, want, rBuf, rcvd>>
    <2>1. writing # <<>> /\ writing \in Seq(Nat) /\ CamInv
      BY TunnelCounts DEF WriteFrame, TunInv
    <2>2. /\ n \in 1 .. Len(writing) /\ n < Width
          /\ bytes \in Seq(Nat) /\ Len(bytes) = n /\ Rest(writing, n) \in Seq(Nat)
      BY <2>1, FrameCuts
    <2>. QED  BY <2>1, <2>2 DEF WriteFrame, CamInv, fwdVars, readVars
  <1>2. PICK pad \in 0 .. MaxPad : Send(Client, Frame(bytes, pad))
    BY DEF WriteFrame
  <1> HIDE DEF n
  <1>3. /\ Client \in Conns /\ s \in Seq(Units) /\ Len(writing) \in Nat /\ written \in Nat
        /\ Framed \in Nat /\ written = Framed + Len(writing) /\ part \in Seq(Units)
    BY TunnelCounts
  <1>4. Frame(bytes, pad) \in Seq(Units)
    BY <1>1, FrameIs
  <1>5. sent'[Client] = s \o Frame(bytes, pad) /\ Taken(Client)' = Taken(Client)
    BY <1>1, <1>2, <1>3, <1>4, SendsMore DEF TunInv
  <1>6. IsSlice(Data, bytes, Framed, Framed + n) /\ IsSlice(Data, writing', Framed + n, written)
    <2>1. IsSlice(Data, writing, Framed, written)
      BY DEF TunInv, Sides
    <2>2. n \in 0 .. written - Framed
      BY ONLY <1>1, <1>3
    <2>. QED  BY <2>1, <2>2, <1>1, DataAssumption, SliceSplits DEF First, Rest
  <1>7. Framed' = Framed + n /\ Unframed' = Unframed
    <2>1. Len(writing') = written - (Framed + n)
      BY <1>6, DataAssumption, SliceIsSeq
    <2>. QED  BY ONLY <2>1, <1>1, <1>3 DEF Framed, Unframed
  <1>8. Sides'
    BY <1>1, <1>6, <1>7 DEF TunInv, Sides
  <1>9. Phases'
    BY <1>1, <1>7 DEF TunInv, Phases
  <1>10. At' = At
    BY <1>1, <1>5 DEF At
  <1>11. PICK off : Framing(off, s, Framed) /\ Reading(off)
    BY <1>1 DEF TunInv
  <1>12. PICK more : /\ Framing(more, s \o Frame(bytes, pad), Framed + Len(bytes))
                     /\ \A p \in DOMAIN off : p \in DOMAIN more /\ more[p] = off[p]
    <2>1. Len(bytes) < Width /\ IsSlice(Data, bytes, Framed, Framed + Len(bytes))
      BY <1>1, <1>6
    <2> HIDE DEF bytes, s
    <2>2. s \in Seq(Units) /\ bytes \in Seq(Nat) /\ Framing(off, s, Framed)
      BY <1>1, <1>3, <1>11, Zenon
    <2>. QED  BY ONLY <2>1, <2>2, pad \in 0 .. MaxPad, FramingGrows
  <1>13. Framing(more, sent'[Client], Framed')
    BY <1>1, <1>5, <1>7, <1>12
  <1>14. IsSlice(s, part, At, Taken(Client)) => IsSlice(sent'[Client], part, At, Taken(Client))
    BY <1>3, <1>4, <1>5, SliceKept
  <1>15. Reading(more)'
    BY <1>1, <1>5, <1>7, <1>10, <1>11, <1>12, <1>14 DEF Reading
  <1>. QED  BY <1>8, <1>9, <1>13, <1>15 DEF TunInv

(* The listener lets the client in: nothing of its units was taken yet.      *)
LEMMA ClientIsAccepted ==
  ASSUME TunInv, CamInv', PeekEnds(Client)
  PROVE  TunInv'
  <1>1. /\ place[Client] = "peek" /\ place'[Client] \in {"accepted", "dial"}
        /\ UNCHANGED <<sent, wire, peeked, writing, written, phase, part, want, rBuf, rcvd>>
        /\ Taken(Client) = 0 /\ phase = "token" /\ part = <<>>
    <2>1. Client \in Conns
      BY DEF Conns
    <2>2. Taken(Client) = 0 /\ phase = "token" /\ part = <<>> /\ place[Client] = "peek"
      BY <2>1 DEF PeekEnds, TunInv, CamInv, Transparent, Phases
    <2>. QED  BY <2>1, <2>2 DEF PeekEnds, TunInv, CamInv, CamTypes, writeVars, readVars
  <1>2. CASE place'[Client] = "dial"
    BY <1>1, <1>2, TunnelUntouched
  <1>3. CASE place'[Client] = "accepted"
    <2>1. Framed' = Framed /\ Unframed' = Unframed /\ Taken(Client)' = 0
      BY <1>1 DEF Framed, Unframed, Taken, Left
    <2>2. Sides' /\ Phases'
      BY <1>1, <1>3, <2>1 DEF TunInv, Sides, Phases
    <2>3. At' = 0
      <3>1. Len(part) = 0 /\ 0 - 0 = 0 /\ part' = part
        BY <1>1
      <3>. QED  BY <2>1, <3>1, Zenon DEF At
    <2>4. IsSlice(sent[Client], <<>>, 0, 0)
      BY TunnelCounts, EmptySlice
    <2>5. \A off : Reading(off)'
      BY <1>1, <2>1, <2>3, <2>4 DEF Reading
    <2>. QED  BY <1>1, <2>1, <2>2, <2>5 DEF TunInv
  <1>. QED  BY <1>1, <1>2, <1>3

(* Where the reader is. *)
LEMMA ReaderIsAt ==
  ASSUME TunInv, NEW off, Reading(off), place[Client] = "accepted"
  PROVE  /\ IsSlice(sent[Client], part, At, Taken(Client))
         /\ At \in Nat /\ Taken(Client) = At + Len(part)
  <1>1. /\ IsSlice(sent[Client], part, At, Taken(Client))
        /\ Taken(Client) \in Nat /\ Len(part) \in Nat
    BY TunnelCounts DEF Reading
  <1>2. At \in Nat
    BY <1>1 DEF IsSlice
  <1>. QED  BY ONLY <1>1, <1>2 DEF At

(* io.ReadFull gets a part of what it wants. *)
LEMMA PartIsRead ==
  ASSUME TunInv, CamInv', ReadPart
  PROVE  TunInv'
  <1>1. /\ place[Client] = "accepted" /\ Len(part) < want /\ want \in Nat
        /\ UNCHANGED <<sent, place, writing, written, phase, want, rBuf, rcvd>>
        /\ want - Len(part) \in Nat
    <2>1. /\ place[Client] = "accepted" /\ Len(part) < want /\ want \in Nat
          /\ UNCHANGED <<sent, place, writing, written, phase, want, rBuf, rcvd>>
      BY DEF ReadPart, TunInv, CamInv, CamTypes, writeVars
    <2>. QED  BY <2>1, TunnelCounts
  <1>2. PICK k \in Counts(Client, want - Len(part)) :
           Take(Client, k) /\ part' = part \o First(Source(Client), k)
    BY DEF ReadPart
  <1> DEFINE piece == First(Source(Client), k)
  <1>3. /\ k \in Nat /\ k <= want - Len(part)
        /\ IsSlice(sent[Client], piece, Taken(Client), Taken(Client) + k)
        /\ Taken(Client)' = Taken(Client) + k
    BY <1>1, <1>2, TunnelCounts, TakesNext DEF TunInv
  <1> HIDE DEF piece
  <1>4. PICK off : Framing(off, sent[Client], Framed) /\ Reading(off)
    BY <1>1 DEF TunInv
  <1>5. /\ IsSlice(sent[Client], part, At, Taken(Client))
        /\ At \in Nat /\ Taken(Client) = At + Len(part)
    BY <1>1, <1>4, ReaderIsAt
  <1>6. IsSlice(sent[Client], part', At, Taken(Client)')
    BY <1>2, <1>3, <1>5, TunnelCounts, SlicesAppend DEF piece
  <1>7. Len(part') = Len(part) + k
    <2>1. Len(part') = Taken(Client)' - At
      BY <1>6, TunnelCounts, SliceIsSeq
    <2>2. Len(part) \in Nat
      BY TunnelCounts
    <2>. QED  BY ONLY <2>1, <2>2, <1>3, <1>5
  <1>8. At' = At
    <2>1. Len(part) \in Nat
      BY TunnelCounts
    <2>. QED  BY ONLY <2>1, <1>3, <1>5, <1>7 DEF At
  <1>9. Framed' = Framed /\ Unframed' = Unframed
    BY <1>1 DEF Framed, Unframed
  <1>10. Sides'
    BY <1>1, <1>9 DEF TunInv, Sides
  <1>11. phase = "payload" => /\ Len(part') >= 2 /\ want = 2 + part'[1].v + part'[2].v
    <2> SUFFICES ASSUME phase = "payload"
                 PROVE  Len(part') >= 2 /\ want = 2 + part'[1].v + part'[2].v
      OBVIOUS
    <2>1. Len(part) >= 2 /\ want = 2 + part[1].v + part[2].v
      BY DEF TunInv, Phases
    <2>2. part \in Seq(Units) /\ Len(part) \in Nat /\ piece \in Seq(Units)
      BY TunnelCounts, <1>3, SliceIsSeq
    <2>3. \A i \in 1 .. Len(part) + Len(piece) :
             (part \o piece)[i] = IF i <= Len(part) THEN part[i] ELSE piece[i - Len(part)]
      BY ONLY <2>2, ConcatProperties
    <2>4. part'[1] = part[1] /\ part'[2] = part[2]
      <3>1. 1 \in 1 .. Len(part) + Len(piece) /\ 2 \in 1 .. Len(part) + Len(piece)
        BY <2>1, <2>2
      <3>. QED  BY <2>1, <2>2, <2>3, <3>1, <1>2 DEF piece
    <2>. QED  BY <2>1, <2>2, <2>4, <1>3, <1>7
  <1>12. Phases'
    <2>1. Len(part') <= want
      <3>1. Len(part) \in Nat
        BY TunnelCounts
      <3>. QED  BY <3>1, <1>1, <1>3, <1>7
    <2>. QED  BY <2>1, <1>1, <1>9, <1>11 DEF TunInv, Phases
  <1>13. Reading(off)'
    BY <1>1, <1>4, <1>6, <1>8, <1>9 DEF Reading
  <1>. QED  BY <1>1, <1>4, <1>9, <1>10, <1>12, <1>13 DEF TunInv

(* The token, or a header, is complete. *)
LEMMA TokenIsRead ==
  ASSUME TunInv, CamInv', ReadToken
  PROVE  TunInv'
  <1>1. /\ phase = "token" /\ Len(part) = 1 /\ phase' = "header" /\ part' = <<>> /\ want' = 2
        /\ UNCHANGED <<sent, wire, peeked, place, writing, written, rBuf, rcvd>>
        /\ Len(<<>>) = 0
    BY DEF ReadToken, connVars, writeVars
  <1>2. place[Client] = "accepted"
    BY <1>1 DEF TunInv, Phases
  <1>3. PICK off : Framing(off, sent[Client], Framed) /\ Reading(off)
    BY <1>2 DEF TunInv
  <1>4. At = 0 /\ Taken(Client) = 1
    <2>1. At = 0 /\ Taken(Client) = At + Len(part)
      BY <1>1, <1>2, <1>3, ReaderIsAt DEF Reading
    <2>. QED  BY <2>1, <1>1
  <1>5. Taken(Client)' = 1 /\ At' = 1
    <2>1. Taken(Client)' = 1
      BY <1>1, <1>4 DEF Taken, Left
    <2>2. 1 - 0 = 1
      OBVIOUS
    <2>. QED  BY <1>1, <2>1, <2>2, Zenon DEF At
  <1>6. Framed' = Framed /\ Unframed' = Unframed /\ Unframed = 0
    BY <1>1 DEF Framed, Unframed, TunInv, Phases
  <1>7. Sides' /\ Phases'
    BY <1>1, <1>2, <1>6 DEF TunInv, Sides, Phases
  <1>8. 1 \in DOMAIN off /\ off[1] = 0
    BY <1>3 DEF Framing
  <1>9. IsSlice(sent[Client], <<>>, 1, 1)
    <2>1. 1 <= Len(sent[Client]) /\ 1 \in Nat
      BY <1>4, TunnelCounts
    <2>. QED  BY <2>1, TunnelCounts, EmptySlice
  <1>10. Reading(off)'
    BY <1>1, <1>5, <1>6, <1>8, <1>9 DEF Reading
  <1>. QED  BY <1>1, <1>2, <1>3, <1>6, <1>7, <1>10 DEF TunInv

(* A header read tells how long its frame is. *)
LEMMA HeaderIsRead ==
  ASSUME TunInv, CamInv', ReadHeader
  PROVE  TunInv'
  <1>1. /\ phase = "header" /\ rBuf = <<>> /\ Len(part) = 2
        /\ phase' = "payload" /\ want' = 2 + Payload(part)
        /\ UNCHANGED <<sent, wire, peeked, place, writing, written, part, rBuf, rcvd>>
    BY DEF ReadHeader, connVars, writeVars
  <1>2. place[Client] = "accepted"
    BY <1>1 DEF TunInv, Phases
  <1>3. PICK off : Framing(off, sent[Client], Framed) /\ Reading(off)
    BY <1>2 DEF TunInv
  <1>4. part[1].v \in Nat /\ part[2].v \in Nat
    <2>1. part[1] \in Units /\ part[2] \in Units
      <3>1. part \in Seq(Units) /\ 1 \in 1 .. Len(part) /\ 2 \in 1 .. Len(part)
        BY <1>1, TunnelCounts
      <3>. QED  BY <3>1, ElementOfSeq
    <2>. QED  BY <2>1 DEF Units
  <1>5. want' = 2 + part[1].v + part[2].v /\ Len(part) <= want'
    BY <1>1, <1>4 DEF Payload
  <1>6. Framed' = Framed /\ Unframed' = Unframed /\ Taken(Client)' = Taken(Client) /\ At' = At
    BY <1>1 DEF Framed, Unframed, Taken, Left, At
  <1>7. Sides' /\ Phases'
    BY <1>1, <1>2, <1>5, <1>6 DEF TunInv, Sides, Phases
  <1>8. Reading(off)'
    BY <1>1, <1>3, <1>6 DEF Reading
  <1>. QED  BY <1>1, <1>2, <1>3, <1>6, <1>7, <1>8 DEF TunInv

(* The data that is handed out next: Read returns what fits into its buffer, *)
(* and keeps the rest.                                                       *)
LEMMA HandsOut ==
  ASSUME TunInv, NEW real \in Seq(Units), NEW e \in Nat, IsSlice(Bytes, real, Len(rcvd), e),
         rcvd' = rcvd \o First(real, Least(BufSize, Len(real))),
         rBuf' = Rest(real, Least(BufSize, Len(real)))
  PROVE  /\ IsSlice(Bytes, rcvd, 0, Len(rcvd))'
         /\ IsSlice(Bytes, rBuf, Len(rcvd), Unframed)'
         /\ Unframed' = e /\ Len(rcvd) <= Len(rcvd')
  <1> DEFINE n == Least(BufSize, Len(real))
             l == Len(rcvd)
  <1>1. /\ IsSlice(Bytes, rcvd, 0, l) /\ rcvd \in Seq(Units) /\ l \in Nat
        /\ Bytes \in Seq(Units) /\ Len(real) = e - l /\ Len(real) \in Nat
    <2>1. IsSlice(Bytes, rcvd, 0, l) /\ rcvd \in Seq(Units) /\ l \in Nat /\ Bytes \in Seq(Units)
      BY TunnelCounts, BytesAre DEF TunInv, Sides
    <2>2. Len(real) = e - l /\ Len(real) \in Nat
      <3>1. Len(real) \in Nat
        OBVIOUS
      <3>2. IsSlice(Bytes, real, l, e)
        OBVIOUS
      <3>. QED  BY ONLY <2>1, <3>1, <3>2, SliceIsSeq
    <2>. QED  BY <2>1, <2>2
  <1>2. n \in 0 .. e - l /\ n \in Nat
    BY <1>1, SizesAssumption DEF Least
  <1> HIDE DEF n
  <1>3. IsSlice(Bytes, First(real, n), l, l + n) /\ IsSlice(Bytes, Rest(real, n), l + n, e)
    BY <1>1, <1>2, SliceSplits DEF First, Rest
  <1>4. IsSlice(Bytes, rcvd', 0, l + n) /\ IsSlice(Bytes, rBuf', l + n, e)
    <2>1. rcvd' = rcvd \o First(real, n) /\ rBuf' = Rest(real, n)
      BY DEF n
    <2>. QED  BY <2>1, <1>1, <1>3, SlicesAppend
  <1>5. Len(rcvd') = (l + n) - 0 /\ Len(rBuf') = e - (l + n)
    <2>0. Bytes \in Seq(Units)
      BY <1>1
    <2>1. IsSlice(Bytes, rcvd', 0, l + n)
      BY <1>4
    <2>2. IsSlice(Bytes, rBuf', l + n, e)
      BY <1>4
    <2>3. Len(rcvd') = (l + n) - 0
      BY ONLY <2>0, <2>1, SliceIsSeq
    <2>4. Len(rBuf') = e - (l + n)
      BY ONLY <2>0, <2>2, SliceIsSeq
    <2>. QED  BY <2>3, <2>4
  <1>6. Len(rcvd') = l + n /\ Unframed' = e /\ l <= l + n
    BY ONLY <1>1, <1>2, <1>5, e \in Nat DEF Unframed
  <1>7. Bytes' = Bytes
    BY DEF Bytes
  <1>. QED  BY <1>4, <1>6, <1>7

(* A payload is complete: its front is the data that comes next.             *)
LEMMA PayloadIsRead ==
  ASSUME TunInv, CamInv', ReadPayload
  PROVE  TunInv' /\ Len(rcvd) <= Len(rcvd')
  <1> DEFINE s == sent[Client]
             h == part[1].v
             real == SubSeq(part, 3, 2 + h)
  <1>1. /\ phase = "payload" /\ Len(part) = want
        /\ rcvd' = rcvd \o First(real, Least(BufSize, Len(real)))
        /\ rBuf' = Rest(real, Least(BufSize, Len(real)))
        /\ phase' = "header" /\ part' = <<>> /\ want' = 2
        /\ UNCHANGED <<sent, wire, peeked, place, writing, written>>
    BY DEF ReadPayload, connVars, writeVars
  <1>2. /\ place[Client] = "accepted" /\ rBuf = <<>> /\ Len(part) >= 2
        /\ want = 2 + h + part[2].v
    BY <1>1 DEF TunInv, Phases
  <1>3. PICK off : Framing(off, s, Framed) /\ Reading(off)
    BY <1>2 DEF TunInv
  <1>4. /\ IsSlice(s, part, At, Taken(Client)) /\ At \in Nat /\ Taken(Client) = At + Len(part)
        /\ At \in DOMAIN off /\ off[At] = Unframed
    BY <1>1, <1>2, <1>3, ReaderIsAt DEF Reading
  <1>5. /\ s \in Seq(Units) /\ Len(s) \in Nat /\ part \in Seq(Units) /\ Len(part) \in Nat
        /\ Taken(Client) <= Len(s) /\ Len(rcvd) \in Nat /\ Framed \in Nat /\ Framed <= Len(Data)
        /\ Unframed = Len(rcvd)
    <2>1. /\ s \in Seq(Units) /\ Len(s) \in Nat /\ part \in Seq(Units) /\ Len(part) \in Nat
          /\ Taken(Client) <= Len(s) /\ Len(rcvd) \in Nat
          /\ Unframed = Len(rcvd) + Len(rBuf)
      BY TunnelCounts
    <2>2. Framed \in Nat /\ Framed <= Len(Data)
      <3>1. Framed \in Nat /\ Len(writing) \in Nat /\ written = Framed + Len(writing)
            /\ written <= Len(Data) /\ Len(Data) \in Nat
        BY TunnelCounts, BytesAre
      <3>. QED  BY ONLY <3>1
    <2>3. Len(rBuf) = 0
      BY <1>2
    <2>. QED  BY ONLY <2>1, <2>2, <2>3
  <1>6. h \in Nat /\ part[2].v \in Nat
    <2>1. part[1] \in Units /\ part[2] \in Units
      <3>1. part \in Seq(Units) /\ 1 \in 1 .. Len(part) /\ 2 \in 1 .. Len(part)
        BY ONLY <1>2, <1>5
      <3>. QED  BY <3>1, ElementOfSeq
    <2>. QED  BY <2>1 DEF Units
  <1>0. 2 + h <= Len(part) /\ Len(part) = 2 + h + part[2].v
    <2> HIDE DEF h
    <2>. QED  BY ONLY <1>1, <1>2, <1>6
  <1>7. \A i \in 1 .. Len(part) : part[i] = s[At + i]
    <2>1. /\ At + 1 \in 1 .. Len(s) + 1 /\ Taken(Client) \in (At + 1) - 1 .. Len(s)
          /\ part = SubSeq(s, At + 1, Taken(Client))
          /\ Taken(Client) - (At + 1) + 1 = Len(part)
      <3>1. part = SubSeq(s, At + 1, Taken(Client))
        BY <1>4 DEF IsSlice
      <3>2. /\ At \in Nat /\ Taken(Client) = At + Len(part) /\ Len(part) \in Nat
            /\ Len(s) \in Nat /\ Taken(Client) <= Len(s)
        BY <1>4, <1>5
      <3>3. /\ At + 1 \in 1 .. Len(s) + 1 /\ Taken(Client) \in (At + 1) - 1 .. Len(s)
            /\ Taken(Client) - (At + 1) + 1 = Len(part)
        <4> HIDE DEF s
        <4>. QED  BY ONLY <3>2
      <3>. QED  BY <3>1, <3>3
    <2>2. \A i \in 1 .. Taken(Client) - (At + 1) + 1 :
             SubSeq(s, At + 1, Taken(Client))[i] = s[(At + 1) + i - 1]
      BY ONLY <2>1, <1>5, SliceType
    <2>3. \A i \in 1 .. Len(part) : (At + 1) + i - 1 = At + i
      BY <1>4, <1>5
    <2>. QED  BY ONLY <2>1, <2>2, <2>3
  <1>8. /\ At < Len(s) /\ FrameAt(off, s, At)
    <2>1. At < Len(s)
      BY <1>2, <1>4, <1>5
    <2>. QED  BY <2>1, <1>3, <1>4 DEF Framing
  <1>9. s[At + 1] = part[1] /\ s[At + 2] = part[2]
    <2>1. 1 \in 1 .. Len(part) /\ 2 \in 1 .. Len(part)
      BY ONLY <1>2, <1>5
    <2>. QED  BY <2>1, <1>7
  <1>10. FrameEnd(s, At) = Taken(Client)
    <2> DEFINE v == part[2].v
               l == Len(part)
    <2> HIDE DEF h, v, l, s
    <2>1. FrameEnd(s, At) = At + 2 + h + v
      BY <1>9, Zenon DEF FrameEnd, h, v
    <2>2. l = 2 + h + v /\ Taken(Client) = At + l
      BY <1>0, <1>4, Zenon DEF l, v
    <2>3. \A x, y, z \in Nat : x + 2 + y + z = x + (2 + y + z)
      OBVIOUS
    <2>4. At \in Nat /\ h \in Nat /\ v \in Nat
      BY <1>4, <1>6, Zenon DEF v
    <2>. QED  BY <2>1, <2>2, <2>3, <2>4, Zenon
  <1>11. /\ Taken(Client) \in DOMAIN off /\ off[Taken(Client)] = Unframed + h
         /\ \A k \in 1 .. h : s[At + 2 + k] = Byte(Data[Unframed + k])
    BY <1>4, <1>8, <1>9, <1>10 DEF FrameAt
  <1>12. Unframed + h <= Framed
    <2>1. off[Taken(Client)] \in 0 .. Framed
      BY <1>3, <1>11 DEF Framing
    <2>. QED  BY <2>1, <1>5, <1>11
  <1>13. /\ real \in Seq(Units) /\ Len(real) = h
         /\ \A k \in 1 .. h : real[k] = Byte(Data[Unframed + k])
    <2>1. /\ 3 \in 1 .. Len(part) + 1 /\ 2 + h \in 3 - 1 .. Len(part)
          /\ (2 + h) - 3 + 1 = h
      <3> HIDE DEF h
      <3>. QED  BY ONLY <1>0, <1>5, <1>6
    <2>2. /\ real \in Seq(Units) /\ Len(real) = (2 + h) - 3 + 1
          /\ \A k \in 1 .. (2 + h) - 3 + 1 : real[k] = part[3 + k - 1]
      <3> HIDE DEF h
      <3>. QED  BY ONLY <2>1, <1>5, SliceType
    <2>3. ASSUME NEW k \in 1 .. h PROVE real[k] = Byte(Data[Unframed + k])
      <3>1. 3 + k - 1 = 2 + k /\ 2 + k \in 1 .. Len(part) /\ At + (2 + k) = At + 2 + k
        <4> HIDE DEF h
        <4>1. k \in Nat /\ k <= h /\ 1 <= k
          BY <1>6
        <4>. QED  BY ONLY <4>1, <1>0, <1>4, <1>5, <1>6
      <3>2. real[k] = part[2 + k]
        BY <2>1, <2>2, <3>1
      <3>3. part[2 + k] = s[At + 2 + k]
        BY <3>1, <1>7
      <3>. QED  BY <3>2, <3>3, <1>11
    <2>. QED  BY <2>1, <2>2, <2>3
  <1> HIDE DEF real, h, s
  <1>14. IsSlice(Bytes, real, Len(rcvd), Len(rcvd) + h)
    <2> DEFINE l == Len(rcvd)
               e == l + h
    <2>1. l \in Nat /\ e \in Nat /\ l <= e /\ e <= Len(Bytes) /\ e <= Len(Data)
      BY <1>5, <1>6, <1>12, BytesAre
    <2>2. /\ l + 1 \in 1 .. Len(Bytes) + 1 /\ e \in (l + 1) - 1 .. Len(Bytes)
          /\ e - (l + 1) + 1 = h
      BY <2>1, <1>6, BytesAre
    <2>3. /\ SubSeq(Bytes, l + 1, e) \in Seq(Units) /\ Len(SubSeq(Bytes, l + 1, e)) = e - (l + 1) + 1
          /\ \A k \in 1 .. e - (l + 1) + 1 : SubSeq(Bytes, l + 1, e)[k] = Bytes[(l + 1) + k - 1]
      <3> HIDE DEF l, e
      <3>. QED  BY ONLY <2>2, BytesAre, SliceType
    <2>4. ASSUME NEW k \in 1 .. h PROVE SubSeq(Bytes, l + 1, e)[k] = real[k]
      <3>1. (l + 1) + k - 1 = l + k /\ l + k \in 1 .. Len(Data)
        BY <2>1, <1>6, BytesAre
      <3>2. SubSeq(Bytes, l + 1, e)[k] = Bytes[l + k]
        BY <2>2, <2>3, <3>1
      <3>. QED  BY <3>1, <3>2, <1>5, <1>13, BytesAre
    <2>5. SubSeq(Bytes, l + 1, e) = real
      <3> HIDE DEF e
      <3>. QED  BY <2>2, <2>3, <2>4, <1>13, SeqEqual
    <2>. QED  BY <2>1, <2>5 DEF IsSlice
  <1>15. /\ IsSlice(Bytes, rcvd, 0, Len(rcvd))' /\ IsSlice(Bytes, rBuf, Len(rcvd), Unframed)'
         /\ Unframed' = Len(rcvd) + h /\ Len(rcvd) <= Len(rcvd')
    <2>1. Len(rcvd) + h \in Nat
      BY <1>5, <1>6
    <2>. QED  BY <2>1, <1>1, <1>13, <1>14, HandsOut
  <1>16. Framed' = Framed /\ Unframed' = Unframed + h /\ Taken(Client)' = Taken(Client)
    BY <1>1, <1>5, <1>15 DEF Framed, Taken, Left
  <1>17. At' = Taken(Client)
    <2>1. Len(part') = 0 /\ Taken(Client) \in Nat
      BY <1>1, TunnelCounts
    <2>. QED  BY ONLY <2>1, <1>16 DEF At
  <1>18. Sides'
    BY <1>1, <1>15, <1>16 DEF TunInv, Sides
  <1>19. Phases'
    <2>1. Len(part') = 0
      BY <1>1
    <2>. QED  BY <2>1, <1>1, <1>2 DEF TunInv, Phases
  <1>20. IsSlice(s, <<>>, Taken(Client), Taken(Client))
    BY TunnelCounts, EmptySlice DEF s
  <1>21. Reading(off)'
    BY <1>1, <1>11, <1>16, <1>17, <1>20 DEF Reading, s
  <1>. QED  BY <1>1, <1>2, <1>3, <1>15, <1>16, <1>18, <1>19, <1>21 DEF TunInv, s

(* A later Read takes what was left of a frame. *)
LEMMA LeftoverIsRead ==
  ASSUME TunInv, CamInv', ReadLeftover
  PROVE  TunInv' /\ Len(rcvd) <= Len(rcvd')
  <1>1. /\ rBuf # <<>>
        /\ rcvd' = rcvd \o First(rBuf, Least(BufSize, Len(rBuf)))
        /\ rBuf' = Rest(rBuf, Least(BufSize, Len(rBuf)))
        /\ UNCHANGED <<sent, wire, peeked, place, writing, written, phase, part, want>>
    BY DEF ReadLeftover, connVars, writeVars
  <1>2. rBuf \in Seq(Units) /\ IsSlice(Bytes, rBuf, Len(rcvd), Unframed) /\ Unframed \in Nat
    BY TunnelCounts DEF TunInv, Sides
  <1>3. /\ IsSlice(Bytes, rcvd, 0, Len(rcvd))' /\ IsSlice(Bytes, rBuf, Len(rcvd), Unframed)'
        /\ Unframed' = Unframed /\ Len(rcvd) <= Len(rcvd')
    BY <1>1, <1>2, HandsOut
  <1>4. Framed' = Framed /\ Taken(Client)' = Taken(Client) /\ At' = At
    BY <1>1 DEF Framed, Taken, Left, At
  <1>5. Sides'
    BY <1>1, <1>3, <1>4 DEF TunInv, Sides
  <1>6. Phases'
    BY <1>1, <1>3 DEF TunInv, Phases
  <1>7. \A off : Framing(off, sent[Client], Framed) /\ Reading(off)
                   => Framing(off, sent'[Client], Framed') /\ Reading(off)'
    BY <1>1, <1>3, <1>4 DEF Reading
  <1>. QED  BY <1>1, <1>3, <1>5, <1>6, <1>7 DEF TunInv

(* What happens to another connection, or to the client's before it is let   *)
(* in and after the server hangs up on it, is nothing to the tunnel.         *)
LEMMA OthersStay ==
  ASSUME TunInv, CamInv', NEW c \in Conns, c # Client,
         \/ Connect(c) \/ Hangup(c) \/ Listen(c) \/ Forward(c)
         \/ CopyDownFails(c) \/ DestHangsUp(c) \/ (c \in Probes /\ ProbeSends(c))
  PROVE  TunInv' /\ UNCHANGED <<written, rcvd, ended[Client]>>
  <1> USE DEF connVars, fwdVars, writeVars, readVars
  <1>0. /\ Client \in Conns /\ sent \in [Conns -> Seq(Units)] /\ wire \in [Conns -> Seq(Units)]
        /\ peeked \in [Conns -> Seq(Units)] /\ place \in [Conns -> Stations]
        /\ ended \in [Conns -> BOOLEAN]
    BY TunnelCounts DEF TunInv, CamInv, CamTypes
  <1> DEFINE Same == /\ sent'[Client] = sent[Client] /\ wire'[Client] = wire[Client]
                     /\ peeked'[Client] = peeked[Client] /\ place'[Client] = place[Client]
                     /\ ended'[Client] = ended[Client]
             Quiet == UNCHANGED <<writing, written, phase, part, want, rBuf, rcvd>>
  <1>1. CASE Connect(c) \/ (c \in Probes /\ ProbeSends(c))
    <2>1. PICK units : Send(c, units)
      BY <1>1 DEF Connect, ProbeSends
    <2>2. Same
      BY <1>0, <1>1, <2>1 DEF Connect, ProbeSends, Send
    <2>3. Quiet
      BY <1>1 DEF Connect, ProbeSends
    <2>. QED  BY <2>2, <2>3, TunnelUntouched DEF Taken, Left
  <1>2. CASE Hangup(c) \/ Accept(c) \/ PeekEnds(c) \/ PeekReads(c)
    <2>1. Same /\ Quiet
      BY <1>0, <1>2 DEF Hangup, Accept, PeekEnds, PeekReads
    <2>. QED  BY <2>1, TunnelUntouched DEF Taken, Left
  <1>3. CASE CopyUp(c)
    <2>1. PICK k : Take(c, k)
      BY <1>3 DEF CopyUp
    <2>2. Same /\ Quiet
      BY <1>0, <1>3, <2>1 DEF CopyUp, Take
    <2>. QED  BY <2>2, TunnelUntouched DEF Taken, Left
  <1>4. CASE \/ Dial(c) \/ CopyUpEnds(c) \/ CopyDownEnds(c) \/ ForwardReturns(c)
             \/ CopyDownFails(c) \/ DestHangsUp(c)
    <2>1. Same /\ Quiet
      BY <1>0, <1>4 DEF Dial, CopyUpEnds, CopyDownEnds, ForwardReturns, CopyDownFails, DestHangsUp
    <2>. QED  BY <2>1, TunnelUntouched DEF Taken, Left
  <1>. QED  BY <1>1, <1>2, <1>3, <1>4 DEF Listen, Forward

(* What else happens to the client's connection leaves the tunnel as it is. *)
LEMMA ClientStays ==
  ASSUME TunInv, CamInv',
         \/ Hangup(Client) \/ Listen(Client) \/ Forward(Client)
         \/ CopyDownFails(Client) \/ DestHangsUp(Client)
  PROVE  /\ TunInv' /\ UNCHANGED <<written, rcvd>>
         /\ ended'[Client] = ended[Client] \/ ended'[Client] = TRUE
  <1> USE DEF connVars, fwdVars, writeVars, readVars
  <1>0. Client \in Conns /\ place \in [Conns -> Stations] /\ ended \in [Conns -> BOOLEAN]
    BY TunnelCounts DEF TunInv, CamInv, CamTypes
  <1> DEFINE Quiet == UNCHANGED <<writing, written, phase, part, want, rBuf, rcvd>>
             Away == place[Client] # "accepted" /\ place'[Client] # "accepted"
             Known == place'[Client] = "new" <=> place[Client] = "new"
  <1>1. CASE PeekEnds(Client)
    BY <1>1, ClientIsAccepted DEF PeekEnds
  <1>2. CASE \/ Hangup(Client) \/ DestHangsUp(Client) \/ CopyUpEnds(Client)
             \/ CopyDownEnds(Client) \/ CopyDownFails(Client)
    <2>1. Quiet /\ UNCHANGED <<sent, wire, peeked, place>>
      BY <1>2 DEF Hangup, DestHangsUp, CopyUpEnds, CopyDownEnds, CopyDownFails
    <2>2. ended'[Client] = ended[Client] \/ ended'[Client] = TRUE
      BY <1>0, <1>2 DEF Hangup, DestHangsUp, CopyUpEnds, CopyDownEnds, CopyDownFails
    <2>. QED  BY <2>1, <2>2, TunnelUntouched DEF Taken, Left
  <1>3. CASE Accept(Client) \/ PeekReads(Client) \/ CopyUp(Client)
    <2>1. Away /\ Known
      BY <1>0, <1>3 DEF Accept, PeekReads, CopyUp
    <2>2. Quiet /\ UNCHANGED <<sent, ended>>
      BY <1>3 DEF Accept, PeekReads, CopyUp
    <2>. QED  BY <2>1, <2>2, TunnelUntouched
  <1>4. CASE Dial(Client) \/ ForwardReturns(Client)
    <2>1. Away /\ Known
      BY <1>0, <1>4 DEF Dial, ForwardReturns
    <2>2. Quiet /\ UNCHANGED <<sent, ended>>
      BY <1>4 DEF Dial, ForwardReturns
    <2>. QED  BY <2>1, <2>2, TunnelUntouched
  <1>. QED  BY <1>1, <1>2, <1>3, <1>4 DEF Listen, Forward

(* What has come out of frames went into frames. *)
LEMMA UnframedIsFramed ==
  ASSUME TunInv
  PROVE  Unframed <= Framed /\ Len(rcvd) <= written
  <1>1. /\ Unframed = Len(rcvd) + Len(rBuf) /\ Len(rcvd) \in Nat /\ Len(rBuf) \in Nat
        /\ Framed \in Nat /\ written = Framed + Len(writing) /\ Len(writing) \in Nat
    BY TunnelCounts
  <1>2. Unframed <= Framed
    <2>1. CASE phase = "token"
      BY <2>1, <1>1 DEF TunInv, Phases
    <2>2. CASE phase # "token"
      <3>1. place[Client] = "accepted"
        BY <2>2 DEF TunInv, Phases
      <3>2. PICK off : Framing(off, sent[Client], Framed) /\ Reading(off)
        BY <3>1 DEF TunInv
      <3>3. At \in DOMAIN off /\ off[At] = Unframed
        BY <2>2, <3>1, <3>2 DEF Reading
      <3>4. Unframed \in 0 .. Framed
        BY <3>2, <3>3 DEF Framing
      <3>. QED  BY <3>4, <1>1
    <2>. QED  BY <2>1, <2>2
  <1>. QED  BY ONLY <1>1, <1>2

(* TunInv is inductive; the steps that count for the stream. *)
StreamStep ==
  \/ Write
  \/ /\ UNCHANGED <<written, ended[Client]>>
     /\ Len(rcvd) <= Len(rcvd') /\ IsSlice(Bytes, rcvd', 0, Len(rcvd'))
  \/ UNCHANGED <<written, rcvd>> /\ ended'[Client] = TRUE
  \/ UNCHANGED <<written, rcvd, ended[Client]>>

(* No step disturbs the tunnel, and each is one the stream allows. *)
LEMMA StaysTunnelled ==
  ASSUME TunInv, [CamNext]_camVars
  PROVE  TunInv' /\ StreamStep
  <1>0. CamInv'
    BY StaysTransparent DEF TunInv
  <1>1. CASE UNCHANGED camVars
    <2>1. UNCHANGED <<sent, wire, peeked, place, ended, writing, written, phase, part, want, rBuf, rcvd>>
      BY <1>1 DEF camVars, connVars, writeVars, readVars
    <2>. QED  BY <1>0, <2>1, TunnelUntouched DEF Taken, Left, StreamStep
  <1>2. ASSUME NEW c \in Conns,
               \/ Connect(c) \/ Hangup(c) \/ Listen(c) \/ Forward(c)
               \/ CopyDownFails(c) \/ DestHangsUp(c) \/ (c \in Probes /\ ProbeSends(c))
        PROVE  TunInv' /\ StreamStep
    <2>1. CASE c # Client
      BY <1>0, <1>2, <2>1, OthersStay DEF StreamStep
    <2>2. CASE c = Client /\ Connect(c)
      BY <1>0, <2>2, ClientConnects DEF StreamStep, Connect, writeVars, readVars
    <2>3. CASE c = Client /\ ~Connect(c)
      <3>1. ~(c \in Probes)
        BY <2>3, ConnsAssumption
      <3>. QED  BY <1>0, <1>2, <2>3, <3>1, ClientStays DEF StreamStep
    <2>. QED  BY <2>1, <2>2, <2>3
  <1>3. CASE Write
    BY <1>0, <1>3, ClientWrites DEF StreamStep
  <1>4. CASE WriteFrame
    BY <1>0, <1>4, FrameGoesOut DEF StreamStep, WriteFrame, readVars
  <1>5. CASE ReadPart \/ ReadToken \/ ReadHeader
    <2>1. TunInv'
      BY <1>0, <1>5, PartIsRead, TokenIsRead, HeaderIsRead
    <2>2. UNCHANGED <<written, rcvd, ended>>
      BY <1>5 DEF ReadPart, ReadToken, ReadHeader, connVars, writeVars
    <2>. QED  BY <2>1, <2>2 DEF StreamStep
  <1>6. CASE ReadPayload \/ ReadLeftover
    <2>1. TunInv' /\ Len(rcvd) <= Len(rcvd')
      BY <1>0, <1>6, PayloadIsRead, LeftoverIsRead
    <2>2. UNCHANGED <<written, ended>>
      BY <1>6 DEF ReadPayload, ReadLeftover, connVars, writeVars
    <2>4. IsSlice(Bytes, rcvd', 0, Len(rcvd'))
      <3>1. Sides'
        BY <2>1 DEF TunInv
      <3>. QED  BY <3>1 DEF Sides, Bytes
    <2>. QED  BY <2>1, <2>2, <2>4 DEF StreamStep
  <1>7. Probes \subseteq Conns
    BY DEF Conns
  <1>. QED  BY <1>1, <1>2, <1>3, <1>4, <1>5, <1>6, <1>7 DEF CamNext, Receive

----------------------------------------------------------------------------
(* What was written, as the reliable stream sees it. *)
LEMMA WrittenIs ==
  ASSUME NEW m \in 0 .. Len(Data)
  PROVE  /\ [k \in 1 .. m |-> Byte(Data[k])] \in Seq({Byte(Data[k]) : k \in 1 .. Len(Data)})
         /\ Len([k \in 1 .. m |-> Byte(Data[k])]) = m
  <1>1. m \in Nat /\ 1 .. m \subseteq 1 .. Len(Data)
    BY BytesAre
  <1>. QED  BY <1>1

(* Such a step is one of the reliable stream. *)
LEMMA StreamStepRefines ==
  ASSUME TunInv, StreamStep, (Len(rcvd) <= written)'
  PROVE  [Tunnelled!Next]_(Tunnelled!streamVars)
  <1> DEFINE Sent(m) == [k \in 1 .. m |-> Byte(Data[k])]
  <1>0. written \in 0 .. Len(Data) /\ Len(rcvd) \in Nat /\ written \in Nat /\ Len(Data) \in Nat
    BY TunnelCounts, BytesAre
  <1>1. CASE Write
    <2>1. PICK n \in written + 1 .. Len(Data) : written' = n
      BY <1>1 DEF Write
    <2>2. ~ended[Client] /\ UNCHANGED <<ended, rcvd>>
      BY <1>1 DEF Write, connVars, readVars
    <2>3. n \in 0 .. Len(Data) /\ written <= n
      BY <1>0, <2>1
    <2>4. /\ Sent(n) \in Seq({Byte(Data[k]) : k \in 1 .. Len(Data)})
          /\ Len(Sent(n)) = n /\ Len(Sent(written)) = written
      BY <1>0, <2>3, WrittenIs
    <2>5. Sent(written) = SubSeq(Sent(n), 1, written)
      <3>1. Sent(n) = SubSeq(Bytes, 1, n) /\ Sent(written) = SubSeq(Bytes, 1, written)
        BY <1>0, <2>3, FirstBytes
      <3>2. /\ 1 \in 1 .. Len(Bytes) + 1 /\ n \in 1 - 1 .. Len(Bytes)
            /\ 1 \in 1 .. n - 1 + 2 /\ written \in 1 - 1 .. n - 1 + 1
            /\ 1 + 1 - 1 = 1 /\ 1 + written - 1 = written
        BY <1>0, <2>3, BytesAre
      <3>3. SubSeq(SubSeq(Bytes, 1, n), 1, written) = SubSeq(Bytes, 1 + 1 - 1, 1 + written - 1)
        BY ONLY <3>2, BytesAre, SliceOfSlice
      <3>. QED  BY <3>1, <3>2, <3>3
    <2>. QED  BY <2>1, <2>2, <2>3, <2>4, <2>5 DEF Tunnelled!Next, Tunnelled!Send
  <1>2. CASE /\ UNCHANGED <<written, ended[Client]>>
             /\ Len(rcvd) <= Len(rcvd') /\ IsSlice(Bytes, rcvd', 0, Len(rcvd'))
    <2> DEFINE m == Len(rcvd')
    <2>1. m \in Nat /\ m \in Len(rcvd) .. written /\ m \in 0 .. Len(Data)
      BY <1>0, <1>2 DEF IsSlice
    <2>2. rcvd' = SubSeq(Bytes, 1, m)
      BY <1>2 DEF IsSlice
    <2> HIDE DEF m
    <2>3. SubSeq(Bytes, 1, m) = SubSeq(Sent(written), 1, m)
      <3>1. Sent(written) = SubSeq(Bytes, 1, written)
        BY <1>0, FirstBytes
      <3>2. /\ 1 \in 1 .. Len(Bytes) + 1 /\ written \in 1 - 1 .. Len(Bytes)
            /\ 1 \in 1 .. written - 1 + 2 /\ m \in 1 - 1 .. written - 1 + 1
            /\ 1 + 1 - 1 = 1 /\ 1 + m - 1 = m
        BY <1>0, <2>1, BytesAre
      <3>3. SubSeq(SubSeq(Bytes, 1, written), 1, m) = SubSeq(Bytes, 1 + 1 - 1, 1 + m - 1)
        BY ONLY <3>2, BytesAre, SliceOfSlice
      <3>. QED  BY <3>1, <3>2, <3>3
    <2>4. Len(Sent(written)) = written
      BY <1>0, WrittenIs
    <2>. QED  BY <1>2, <2>1, <2>2, <2>3, <2>4 DEF Tunnelled!Next, Tunnelled!Deliver
  <1>3. CASE UNCHANGED <<written, rcvd>> /\ ended'[Client] = TRUE
    BY <1>3 DEF Tunnelled!Next, Tunnelled!Finish
  <1>4. CASE UNCHANGED <<written, rcvd, ended[Client]>>
    BY <1>4 DEF Tunnelled!streamVars
  <1>. QED  BY <1>1, <1>2, <1>3, <1>4 DEF StreamStep

(* Through the token, the peeking, the frames with their padding, short reads*)
(* and leftovers, the server reads the stream the client wrote: the safety   *)
(* part of ImplementsStream.  A length in a header never wraps round, so the *)
(* reader is always where a frame of the writer's begins.                    *)
THEOREM TunnelIsStream == CamSpec => Tunnelled!Spec
  <1>1. CamInit => Tunnelled!Init
    <2> SUFFICES ASSUME CamInit PROVE Tunnelled!Init
      OBVIOUS
    <2>1. written = 0 /\ rcvd = <<>> /\ ended[Client] = FALSE
      BY DEF CamInit, Conns
    <2>2. [k \in 1 .. written |-> Byte(Data[k])] = <<>>
      <3>1. Len([k \in 1 .. 0 |-> Byte(Data[k])]) = 0
            /\ [k \in 1 .. 0 |-> Byte(Data[k])] \in Seq({Byte(Data[k]) : k \in 1 .. Len(Data)})
        BY BytesAre, WrittenIs
      <3>2. [k \in 1 .. 0 |-> Byte(Data[k])] = <<>>
        BY <3>1, EmptySeq
      <3>. QED  BY <2>1, <3>2
    <2>. QED  BY <2>1, <2>2 DEF Tunnelled!Init
  <1>2. TunInv => Len(rcvd) <= written
    BY UnframedIsFramed
  <1>3. TunInv /\ [CamNext]_camVars /\ (Len(rcvd) <= written)' => [Tunnelled!Next]_(Tunnelled!streamVars)
    BY StaysTunnelled, StreamStepRefines
  <1>4. TunInv /\ [CamNext]_camVars => TunInv'
    BY StaysTunnelled
  <1>. QED  BY <1>1, <1>2, <1>3, <1>4, TunnelAtFirst, PTL DEF CamSpec, Tunnelled!Spec
=============================================================================
