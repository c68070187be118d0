------------------------------ MODULE Provision ------------------------------
(***************************************************************************)
(* Who may use a server: the files that nv setup, nv init and nv adduser   *)
(* write, the operator's edits the README asks for, and the server, which  *)
(* reads them when it starts.  A command may be killed anywhere, a write   *)
(* may fail (no command looks at the error), commands may overlap.  The    *)
(* run of a command is named after the user it makes, and so are the keys  *)
(* and the certificate that run makes.                                     *)
(***************************************************************************)

CONSTANTS
  Users,   \* users ever made, one to a run of a command
  Absent,  \* what a file is that does not exist
  Empty,   \* what it is between os.WriteFile's O_TRUNC and its write
  Down     \* what server is when no server runs

TlsFiles == {"cert", "tlsKey"}
FileNames == TlsFiles \cup {"config", "import"} \cup Users  \* links/<sid>.txt is file sid
Writing == TlsFiles \cup {"config", "import", "link"}

ASSUME UsersAssumption == Users \cap (Writing \cup {Absent, Empty}) = {}
ASSUME EmptyAssumption ==
  Absent # Empty /\ {Absent, Empty} \cap [key : Users, users : SUBSET Users] = {}

VARIABLES
  files,    \* files[f]: the contents of f
  pc,       \* pc[u]: where the run that makes u is, or the file it writes
  open,     \* open[u]: it has truncated that file
  kind,     \* kind[u]: the command
  key,      \* key[u]: the server's key as the run knows it
  body,     \* body[u]: the configuration it will write
  unlisted, \* (history) users whose entry found no place, or was not written
  server,   \* what the server has loaded, or Down
  revoked,  \* (history) the users the operator took out
  recalled, \* (history) those of them whom a run had then yet to write
  overlapped,  \* (history) two runs, or a run and an edit, were under way at once
  torn         \* (history) a file the server needs was not written as it should

runVars == <<pc, open, kind, key, body, unlisted>>
operatorVars == <<revoked, recalled>>
provVars == <<files, runVars, server, operatorVars, overlapped, torn>>

ProvInit ==
  /\ files = [f \in FileNames |-> Absent]
  /\ pc = [u \in Users |-> "new"] /\ open = [u \in Users |-> FALSE]
  /\ kind = [u \in Users |-> "adduser"]
  /\ key = [u \in Users |-> u] /\ body = [u \in Users |-> Absent]
  /\ server = Down /\ revoked = {} /\ recalled = {} /\ unlisted = {}
  /\ overlapped = FALSE /\ torn = FALSE

----------------------------------------------------------------------------
Whole(f) == files[f] \notin {Absent, Empty}
Running(u) == pc[u] \in Writing \cup {"loaded"}
Busy == {u \in Users : Running(u)}
(* A run begins. *)
Begin(u) ==
  /\ pc[u] = "new"
  /\ overlapped' = (overlapped \/ Busy # {})

(* An import link, and the configuration a client makes of it: the server's  *)
(* key, the user's short id and private key.                                 *)
GenerateURI(k, u) == [pub |-> k, sid |-> u, upk |-> u]
ParseURI(l) == [ServerPublicKey |-> l.pub, ShortID |-> l.sid, UserPrivateKey |-> l.upk]

SavedLinks == {files[f] : f \in {g \in Users \cup {"import"} : Whole(g)}}

(* setup and init do nothing when there is a configuration, whatever is in   *)
(* it; otherwise they make keys and a first user.                            *)
Setup(u, command) ==
  /\ Begin(u)
  /\ IF files["config"] # Absent
       THEN pc' = [pc EXCEPT ![u] = "done"] /\ UNCHANGED <<kind, body>>
       ELSE /\ pc' = [pc EXCEPT ![u] = "cert"]
            /\ kind' = [kind EXCEPT ![u] = command]
            /\ body' = [body EXCEPT ![u] = [key |-> u, users |-> {u}]]
  /\ UNCHANGED <<files, open, key, unlisted, server, operatorVars, torn>>

(* adduser loads the configuration for the server's key, and exits when there*)
(* is none ...                                                               *)
AdduserLoads(u) ==
  /\ Begin(u)
  /\ IF Whole("config")
       THEN /\ pc' = [pc EXCEPT ![u] = "loaded"]
            /\ key' = [key EXCEPT ![u] = files["config"].key]
       ELSE pc' = [pc EXCEPT ![u] = "done"] /\ UNCHANGED key
  /\ UNCHANGED <<files, open, kind, body, unlisted, server, operatorVars, torn>>

(* ... and reads the file again, as text: the new entry goes after the last  *)
(* user's name, and nowhere when there is no user.                           *)
NoPlace(c) == c = Empty \/ c.users = {}
(* What goes wrong if it replaces the last entry, or if the list is made anew*)
(* from the users who have links.                                            *)
AddEntryReplacing(c, u) == IF NoPlace(c) THEN c ELSE [c EXCEPT !.users = {u}]
AddEntryOfOld(c, u) ==
  IF NoPlace(c) THEN c ELSE [c EXCEPT !.users = @ \cup {u} \cup {l.sid : l \in SavedLinks}]

AddEntry(c, u) == IF NoPlace(c) THEN c ELSE [c EXCEPT !.users = @ \cup {u}]

AdduserReads(u) ==
  /\ pc[u] = "loaded"
  /\ body' = [body EXCEPT ![u] = AddEntry(files["config"], u)]
  /\ unlisted' = unlisted \cup {v \in {u} : NoPlace(files["config"])}
  /\ pc' = [pc EXCEPT ![u] = "config"]
  /\ UNCHANGED <<files, open, kind, key, server, operatorVars, overlapped, torn>>

----------------------------------------------------------------------------
(* The files of a run, in order.  Of two runs that write one file the later  *)
(* is taken to win.  Only of the configuration can others see that it was    *)
(* truncated and not written yet.                                            *)
File(u) == IF pc[u] = "link" THEN u ELSE pc[u]

Content(u) ==
  CASE pc[u] \in TlsFiles -> u
    [] pc[u] = "config" -> body[u]
    [] OTHER -> GenerateURI(key[u], u)

(* The configuration before the certificate. *)
AfterConfigFirst(u) ==
  CASE pc[u] = "cert" -> "config"
    [] pc[u] = "config" -> IF kind[u] = "adduser" THEN "link" ELSE "tlsKey"
    [] pc[u] = "tlsKey" -> "import"
    [] OTHER -> "done"

After(u) ==
  CASE pc[u] = "cert" -> "tlsKey"
    [] pc[u] = "tlsKey" -> "config"
    [] pc[u] = "config" -> IF kind[u] = "adduser" THEN "link" ELSE "import"
    [] pc[u] = "import" -> IF kind[u] = "setup" THEN "link" ELSE "done"
    [] OTHER -> "done"

Truncate(u) ==
  /\ pc[u] = "config" /\ ~open[u]
  /\ files' = [files EXCEPT !["config"] = Empty]
  /\ open' = [open EXCEPT ![u] = TRUE]
  /\ UNCHANGED <<pc, kind, key, body, unlisted, server, operatorVars, overlapped, torn>>

(* A run that is over has forgotten what it knew. *)
MoveTo(u, place) ==
  /\ pc' = [pc EXCEPT ![u] = place]
  /\ open' = [open EXCEPT ![u] = FALSE]
  /\ IF place \in Writing
       THEN UNCHANGED <<kind, key, body>>
       ELSE /\ kind' = [kind EXCEPT ![u] = "adduser"]
            /\ key' = [key EXCEPT ![u] = u]
            /\ body' = [body EXCEPT ![u] = Absent]
  /\ UNCHANGED <<server, operatorVars, overlapped>>

IsOpen(u) == pc[u] = "config" => open[u]

Fill(u) ==
  /\ pc[u] \in Writing /\ IsOpen(u)
  /\ MoveTo(u, After(u))
  /\ files' = [files EXCEPT ![File(u)] = Content(u)]
  /\ UNCHANGED <<unlisted, torn>>

(* A write fails: a file that cannot be opened stays as it was, and on a full*)
(* disk it stays empty.  The error is dropped, and the run goes on.          *)
FillFails(u) ==
  /\ pc[u] \in Writing
  /\ MoveTo(u, After(u))
  /\ \/ ~open[u] /\ UNCHANGED files
     \/ IsOpen(u) /\ files' = [files EXCEPT ![File(u)] = Empty]
  /\ unlisted' = unlisted \cup {v \in {u} : pc[u] = "config"}
  /\ torn' = (torn \/ pc[u] \in TlsFiles \/ open[u])

Kill(u) ==
  /\ Running(u)
  /\ MoveTo(u, "done")
  /\ torn' = (torn \/ open[u])
  /\ UNCHANGED <<files, unlisted>>

----------------------------------------------------------------------------
(* A run has a list with user u that it has yet to write. *)
Recalls(u) ==
  \E v \in Users :
    pc[v] \in TlsFiles \cup {"config"} /\ body[v] # Empty /\ u \in body[v].users

(* The operator takes a user out of server.yaml, or pastes in the entry that *)
(* nv keygen prints.                                                         *)
Edit(U) ==
  /\ Whole("config")
  /\ files' = [files EXCEPT !["config"] = [@ EXCEPT !.users = U]]
  /\ overlapped' = (overlapped \/ Busy # {})
  /\ UNCHANGED <<open, kind, key, body, unlisted, server, torn>>

Revoke(u) ==
  /\ Whole("config") /\ u \in files["config"].users
  /\ Edit(files["config"].users \ {u})
  /\ revoked' = revoked \cup {u}
  /\ recalled' = IF Recalls(u) THEN recalled \cup {u} ELSE recalled \ {u}
  /\ UNCHANGED pc

Keygen(u) ==
  /\ pc[u] = "new" /\ Whole("config")
  /\ Edit(files["config"].users \cup {u})
  /\ pc' = [pc EXCEPT ![u] = "done"]
  /\ UNCHANGED operatorVars

(* The server starts if it can load a key, and a certificate that fits its   *)
(* key; its users are those of that moment.  (The rest of it is history.)    *)
Start ==
  /\ server = Down
  /\ Whole("config") /\ Whole("cert") /\ files["cert"] = files["tlsKey"]
  /\ server' = [key |-> files["config"].key, users |-> files["config"].users,
                links |-> SavedLinks, revoked |-> revoked, recalled |-> recalled]
  /\ UNCHANGED <<files, runVars, operatorVars, overlapped, torn>>

(* It is stopped, for a restart, or crashes; the supervisor starts it again. *)
Stop ==
  /\ server # Down
  /\ server' = Down
  /\ UNCHANGED <<files, runVars, operatorVars, overlapped, torn>>

Validate(s, c) ==
  /\ c.ShortID \in s.users /\ c.UserPrivateKey = c.ShortID
  /\ c.ServerPublicKey = s.key

----------------------------------------------------------------------------
Step(u) == AdduserReads(u) \/ Truncate(u) \/ Fill(u) \/ FillFails(u)

ProvNext ==
  \/ \E u \in Users :
       \/ \E command \in {"setup", "init"} : Setup(u, command)
       \/ AdduserLoads(u) \/ Keygen(u) \/ Revoke(u)
       \/ Step(u) \/ Kill(u)
  \/ Start \/ Stop

(* Commands go on, and the supervisor keeps starting the server. *)
ProvSpec == ProvInit /\ [][ProvNext]_provVars
ProvFairSpec ==
  /\ ProvSpec
  /\ \A u \in Users : WF_provVars(Step(u))
  /\ WF_provVars(Start)

----------------------------------------------------------------------------
(* A link that was saved before the server started lets its holder in unless *)
(* its user was revoked or never got on the list, whatever command was killed*)
(* where, as long as commands and edits did not overlap: the link is saved   *)
(* after the entry, and the key of a configuration that exists is kept.  (A  *)
(* link is saved also for a user whose entry could not be written, or went   *)
(* nowhere because the list was empty, and adduser says that the user was    *)
(* added, cmd_adduser.go:108-131: those are unlisted.)                       *)
SavedLinkWorks ==
  (server # Down /\ ~overlapped) =>
     \A l \in server.links :
        l.sid \in server.revoked \cup unlisted \/ Validate(server, ParseURI(l))

(* A user revoked before the server started stays out, whoever was added     *)
(* before, since or at the same time, unless a run had the user on a list it *)
(* had yet to write.  (adduser reads the list at cmd_adduser.go:90 and writes*)
(* all of it back at 108: a user taken out in between is brought back.)      *)
RevokedStaysOut ==
  server # Down => server.users \cap server.revoked \subseteq server.recalled

(* Once there is a configuration the server keeps coming up, whatever run was*)
(* killed where, unless it was inside the write of the configuration itself, *)
(* a write failed, or two runs met (their certificate and its key may not    *)
(* fit, their configurations overwrite each other).                          *)
ServesDespiteKills ==
  ([](~overlapped /\ ~torn) /\ <>Whole("config")) => []<>(server # Down)
=============================================================================
