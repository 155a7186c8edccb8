-------------------------- MODULE ClientServerProofs --------------------------
(***************************************************************************)
(* What ClientServer guarantees for any number of commands, of copies of   *)
(* their requests that the network damages or delivers late, of identities *)
(* and of restarts.                                                        *)
(*                                                                         *)
(* The heart of it is VerifiedIff: a route accepts a request if and only   *)
(* if what it was asked to do is what the command said and the account has *)
(* the keys of the command's identity.  Around it the invariant says of    *)
(* each copy how far the server is with it, of each nonce that one copy at *)
(* most got past it, and of each answer why it is true.                    *)
(***************************************************************************)
EXTENDS ClientServer, TLAPS

Live == {"create", "register", "account", "share", "owner",
         "upload", "delete", "revoke", "list"}
Errors == {"signature", "conflict", "unauthorized", "not_found", "bad_request", "no_route"}
Statuses == Errors \union {"ok", "nonce", "internal"}

Payloads == Ids \union Files \union Shared \union Eds
Asked(c) == UNION {UNION {Asks(op, id, c) : op \in Ops} : id \in Ids}
Headers == {q.headers : q \in UNION {Asked(c) : c \in Cmds}}
Arrivals == [route : Protected \union {"GET/recryption/share/id/file"},
             payload : Payloads, headers : Headers]

Commands == [st : Statuses \union {"sent"}, id : Ids, op : Ops, q : Arrivals]
Reading == [st : {"create", "register", "account", "share"}, q : Arrivals]
Knowing == [st : {"owner", "upload", "delete", "revoke", "list"}, q : Arrivals, ml : Mls]
Answers == [st : {"answer"}, status : Statuses]
Over == [st |-> "over"]
Deeds == [op : Ops \ {"download_share"}, fp : Eds, ml : Mls, target : Payloads \union {Nothing}]

TypeOK ==
    /\ store \in {"memory", "sqlite"}
    /\ accounts \in [Eds -> Mls \union {Nothing}]
    /\ used \subseteq Cmds /\ expired \subseteq Cmds
    /\ owners \in [Files -> Eds \union {Nothing}]
    /\ shares \subseteq Shared
    /\ server \in [Copies -> {Idle, Over} \union Answers \union Reading \union Knowing]
    /\ cmd \in [Cmds -> {Idle} \union Commands]
    /\ duplicates \in Nat /\ damages \in Nat /\ restarts \in Nat
    /\ acted \in [Cmds -> Seq(Deeds)]
    /\ raced \subseteq Eds

(* Each command has sent what its operation asks of the server; the server *)
(* has done and answered nothing before that.                              *)
CommandsOK ==
    \A c \in Cmds :
        /\ cmd[c].st # "idle" => cmd[c].q \in Asks(cmd[c].op, cmd[c].id, c)
        /\ cmd[c].st = "idle" =>
              acted[c] = <<>> /\ \A k \in {1, 2} : server[<<c, k>>].st = "idle"

(* The operation of the commands whose requests reach a stage. *)
OpsAt(st) ==
    CASE st \in {"create", "register"} -> {"register"}
      [] st \in {"share", "revoke"} -> {"revoke"}
      [] st \in {"owner", "delete"} -> {"delete"}
      [] st = "account" -> {"upload", "delete", "revoke", "list_shares"}
      [] st = "upload" -> {"upload"}
      [] st = "list" -> {"list_shares"}

(* What the server works on is what the command sent, but for the bytes of *)
(* a damaged upload; past the signatures it is that too, and the keys of   *)
(* the account are those of the command's identity.  The key that a delete *)
(* read is still the account's, unless two creates raced.                  *)
CopyOK(i) ==
    LET d == cmd[i[1]]
        w == server[i] IN
    /\ w.q.route = d.q.route /\ w.q.headers = d.q.headers
    /\ w.q.payload # d.q.payload =>
          d.op = "upload" /\ damages > 0 /\ w.q.payload \in Files
    /\ d.op \in OpsAt(w.st)
    /\ w.st \in {"upload", "delete", "revoke", "list"} =>
          w.q.payload = d.q.payload /\ w.ml = d.id.ml
    /\ w.st = "owner" => accounts[d.id.ed] = w.ml \/ d.id.ed \in raced

CopiesOK == \A i \in Copies : server[i].st \in Live => CopyOK(i)

(* Of two creates for one fingerprint the second finds the account, unless *)
(* both were let past exists.                                              *)
Registers(i, e) == server[i].st = "register" /\ server[i].q.payload.ed = e
CreatesRace ==
    \A e \in Eds \ raced : \A i, j \in Copies :
        /\ Registers(i, e) => accounts[e] = Nothing
        /\ Registers(i, e) /\ Registers(j, e) => i = j

(* A nonce lets one copy of a request through, and the server acts on it   *)
(* when it is done with it.                                                *)
Works(c, k) == server[<<c, k>>].st \in Live
Once(c) ==
    /\ \A k, l \in {1, 2} : Works(c, k) /\ Works(c, l) => k = l
    /\ \A k \in {1, 2} : Works(c, k) => c \in used /\ acted[c] = <<>>
    /\ acted[c] # <<>> => c \in used
    /\ Len(acted[c]) <= 1
OnceOK == Kept => \A c \in Cmds : Once(c)

(* The server has not acted on any copy and never will. *)
Refused(c) ==
    /\ acted[c] = <<>>
    /\ \A k \in {1, 2} : ~ Works(c, k)
    /\ c \in used \/ cmd[c].op = "download_share"

(* Why a status that command c was or may be told is true. *)
Claim(c, s) ==
    LET op == cmd[c].op
        id == cmd[c].id IN
    Kept =>
        /\ s = "signature" =>
              /\ op # "register"
              /\ \/ op = "upload" /\ damages > 0
                 \/ accounts[id.ed] \notin {Nothing, id.ml}
                 \/ id.ed \in raced
        /\ s = "ok" /\ op = "register" => accounts[id.ed] = id.ml \/ id.ed \in raced
        /\ s = "conflict" => accounts[id.ed] # Nothing

Outcome(c, s) ==
    /\ s = "ok" => acted[c] # <<>>
    /\ Kept /\ s \in Errors => Refused(c)
    /\ Claim(c, s)

Outcomes ==
    \A c \in Cmds :
        /\ cmd[c].st \in Statuses => Outcome(c, cmd[c].st)
        /\ \A k \in {1, 2} : server[<<c, k>>].st = "answer" =>
              Outcome(c, server[<<c, k>>].status)

IInv ==
    /\ TypeOK
    /\ CommandsOK
    /\ CopiesOK
    /\ CreatesRace
    /\ OnceOK
    /\ Outcomes
    /\ ActedAsAsked

-----------------------------------------------------------------------------
(* What is in a request of the CLI. *)
RouteOf(op) ==
    CASE op = "register" -> "POST/accounts"
      [] op = "upload" -> "POST/files"
      [] op = "delete" -> "DELETE/files/hash"
      [] op = "revoke" -> "DELETE/recryption/share/id"
      [] op = "download_share" -> "GET/recryption/share/id/file"
      [] op = "list_shares" -> "GET/accounts/fingerprint/shares"

LEMMA AskedFacts ==
    ASSUME NEW id \in Ids, NEW c \in Cmds, NEW op \in Ops, NEW q \in Asks(op, id, c)
    PROVE  /\ q \in Arrivals
           /\ q.headers.fp = id.ed /\ q.headers.nonce = c /\ q.route = RouteOf(op)
           /\ op = "register" => q = RegisterRequest(id, c) /\ q.payload = id
           /\ op \in {"upload", "delete"} => q.payload \in Files
           /\ id.ed \in Eds /\ id.ml \in Mls
<1>1. id.ed \in Eds /\ id.ml \in Mls
  BY ClientServerAssumption DEF Identities
<1>2. q.headers \in Headers
  <2>1. q \in Asked(c)
    BY DEF Asked
  <2>. QED
    BY <2>1 DEF Headers
<1>3. CASE op = "register"
  <2>1. q = RegisterRequest(id, c)
    BY <1>3 DEF Asks
  <2>. QED
    BY <1>1, <1>2, <1>3, <2>1
       DEF RegisterRequest, Request, AuthHeaders, RouteOf, Arrivals, Payloads, Protected
<1>4. CASE op = "upload"
  <2>1. PICK f \in Files : q = UploadRequest(id, f, c)
    BY <1>4 DEF Asks
  <2>. QED
    BY <1>1, <1>2, <1>4, <2>1
       DEF UploadRequest, Request, AuthHeaders, RouteOf, Arrivals, Payloads, Protected
<1>5. CASE op = "delete"
  <2>1. PICK f \in Files : q = DeleteRequest(id, f, c)
    BY <1>5 DEF Asks
  <2>. QED
    BY <1>1, <1>2, <1>5, <2>1
       DEF DeleteRequest, Request, AuthHeaders, RouteOf, Arrivals, Payloads, Protected
<1>6. CASE op = "revoke"
  <2>1. PICK s \in Shared : q = RevokeRequest(id, s, c)
    BY <1>6 DEF Asks
  <2>. QED
    BY <1>1, <1>2, <1>6, <2>1
       DEF RevokeRequest, Request, AuthHeaders, RouteOf, Arrivals, Payloads, Protected
<1>7. CASE op = "download_share"
  <2>1. PICK s \in Shared : q = DownloadShareRequest(id, s, c)
    BY <1>7 DEF Asks
  <2>. QED
    BY <1>1, <1>2, <1>7, <2>1
       DEF DownloadShareRequest, Request, AuthHeaders, RouteOf, Arrivals, Payloads
<1>8. CASE op = "list_shares"
  <2>1. q = ListSharesRequest(id, c)
    BY <1>8 DEF Asks
  <2>. QED
    BY <1>1, <1>2, <1>8, <2>1
       DEF ListSharesRequest, Request, AuthHeaders, RouteOf, Arrivals, Payloads, Protected
<1>. QED
  BY <1>3, <1>4, <1>5, <1>6, <1>7, <1>8 DEF Ops

(* What the signatures in the CLI's headers are worth. *)
LEMMA RequestParts ==
    ASSUME NEW route, NEW payload, NEW id, NEW m, NEW c, NEW q,
           q = Request(route, payload, id, m, c)
    PROVE  q.route = route /\ q.payload = payload /\ q.headers = AuthHeaders(id, m, c)
BY DEF Request

LEMMA HeaderParts ==
    ASSUME NEW id, NEW m, NEW c, NEW h, h = AuthHeaders(id, m, c)
    PROVE  /\ h.fp = id.ed /\ h.nonce = c
           /\ h.edSig = [by |-> id.ed, over |-> m]
           /\ h.mlSig = [by |-> id.ml, over |-> m]
BY DEF AuthHeaders

LEMMA SignedIff ==
    ASSUME NEW id, NEW m, NEW c, NEW h, h = AuthHeaders(id, m, c), h.mlSig # Nothing,
           NEW n, NEW ml
    PROVE  VerifyMessage(n, h, h.fp, ml) <=> ml = id.ml /\ n = m
<1>1. /\ h.fp = id.ed
      /\ h.edSig = [by |-> id.ed, over |-> m]
      /\ h.mlSig = [by |-> id.ml, over |-> m]
  BY HeaderParts
<1>2. [by |-> id.ed, over |-> m] = [by |-> id.ed, over |-> n] <=> n = m
  OBVIOUS
<1>3. [by |-> id.ml, over |-> m] = [by |-> ml, over |-> n] <=> n = m /\ ml = id.ml
  OBVIOUS
<1>. QED
  BY <1>1, <1>2, <1>3 DEF VerifyMessage

(* The server's message for a request q that came of what the command      *)
(* sent, q0: the signatures fit if and only if nothing was damaged and the *)
(* account's keys are the identity's.                                      *)
LEMMA VerifiedIff ==
    ASSUME NEW id \in Ids, NEW c \in Cmds,
           NEW op \in {"upload", "delete", "revoke", "list_shares"},
           NEW q0 \in Asks(op, id, c), NEW q,
           q.route = q0.route, q.headers = q0.headers,
           op = "upload" \/ q.payload = q0.payload,
           NEW ml \in Mls
    PROVE  VerifyMultisig(Message(q), q, q.headers.fp, ml)
             <=> ml = id.ml /\ q.payload = q0.payload
<1>1. id.ed # Nothing /\ ml # Nothing
  BY ClientServerAssumption, RequestsAssumption DEF Identities
<1>2. q.headers.mlSig # Nothing
  BY SignatureAssumption DEF Ops
<1>3. CASE op = "upload"
  <2>1. PICK f \in Files : q0 = UploadRequest(id, f, c)
    BY <1>3 DEF Asks
  <2> DEFINE m == <<"UPLOAD", id.ed, f, c>>
  <2>2. q0 = Request("POST/files", f, id, m, c)
    BY <2>1 DEF UploadRequest
  <2> HIDE DEF m
  <2>3. q0.payload = f /\ q.headers = AuthHeaders(id, m, c) /\ q.route = "POST/files"
    BY <2>2, RequestParts
  <2>4. q.headers.fp = id.ed /\ q.headers.nonce = c
    BY <2>3 DEF AuthHeaders
  <2>5. Message(q) = <<"UPLOAD", id.ed, q.payload, c>>
    BY <2>3, <2>4 DEF Message, UploadMessage
  <2>6. Message(q) = m <=> q.payload = q0.payload
    BY <2>3, <2>5 DEF m
  <2>7. VerifyMessage(Message(q), q.headers, q.headers.fp, ml)
          <=> ml = id.ml /\ Message(q) = m
    BY <1>2, <2>3, SignedIff
  <2>. QED
    BY <1>1, <2>4, <2>6, <2>7 DEF VerifyMultisig
<1>4. CASE op = "delete"
  <2>1. PICK f \in Files : q0 = DeleteRequest(id, f, c)
    BY <1>4 DEF Asks
  <2> DEFINE m == <<"DELETE", id.ed, f, c>>
  <2>2. q0 = Request("DELETE/files/hash", f, id, m, c)
    BY <2>1 DEF DeleteRequest
  <2> HIDE DEF m
  <2>3. q0.payload = f /\ q.headers = AuthHeaders(id, m, c) /\ q.route = "DELETE/files/hash"
    BY <2>2, RequestParts
  <2>4. q.headers.fp = id.ed /\ q.headers.nonce = c
    BY <2>3 DEF AuthHeaders
  <2>5. Message(q) = <<"DELETE", id.ed, q.payload, c>>
    BY <2>3, <2>4 DEF Message, DeleteMessage
  <2>6. Message(q) = m <=> q.payload = q0.payload
    BY <2>3, <2>5 DEF m
  <2>7. VerifyMessage(Message(q), q.headers, q.headers.fp, ml)
          <=> ml = id.ml /\ Message(q) = m
    BY <1>2, <2>3, SignedIff
  <2>. QED
    BY <1>1, <2>4, <2>6, <2>7 DEF VerifyMultisig
<1>5. CASE op = "revoke"
  <2>1. PICK s \in Shared : q0 = RevokeRequest(id, s, c)
    BY <1>5 DEF Asks
  <2> DEFINE m == <<"REVOKE", id.ed, s, c>>
  <2>2. q0 = Request("DELETE/recryption/share/id", s, id, m, c)
    BY <2>1 DEF RevokeRequest
  <2> HIDE DEF m
  <2>3. q0.payload = s /\ q.headers = AuthHeaders(id, m, c) /\ q.route = "DELETE/recryption/share/id"
    BY <2>2, RequestParts
  <2>4. q.headers.fp = id.ed /\ q.headers.nonce = c
    BY <2>3 DEF AuthHeaders
  <2>5. Message(q) = <<"REVOKE", id.ed, q.payload, c>>
    BY <2>3, <2>4 DEF Message, RevokeMessage
  <2>6. Message(q) = m <=> q.payload = q0.payload
    BY <2>3, <2>5 DEF m
  <2>7. VerifyMessage(Message(q), q.headers, q.headers.fp, ml)
          <=> ml = id.ml /\ Message(q) = m
    BY <1>2, <2>3, SignedIff
  <2>. QED
    BY <1>1, <2>4, <2>6, <2>7 DEF VerifyMultisig
<1>6. CASE op = "list_shares"
  <2>1. q0 = ListSharesRequest(id, c)
    BY <1>6 DEF Asks
  <2> DEFINE m == <<"LIST_SHARES", id.ed, c>>
  <2>2. q0 = Request("GET/accounts/fingerprint/shares", id.ed, id, m, c)
    BY <2>1 DEF ListSharesRequest
  <2> HIDE DEF m
  <2>3. q0.payload = id.ed /\ q.headers = AuthHeaders(id, m, c) /\ q.route = "GET/accounts/fingerprint/shares"
    BY <2>2, RequestParts
  <2>4. q.headers.fp = id.ed /\ q.headers.nonce = c
    BY <2>3 DEF AuthHeaders
  <2>5. Message(q) = <<"LIST_SHARES", q.payload, c>>
    BY <2>3, <2>4 DEF Message, ListSharesMessage
  <2>6. Message(q) = m <=> q.payload = q0.payload
    BY <2>3, <2>5 DEF m
  <2>7. VerifyMessage(Message(q), q.headers, q.headers.fp, ml)
          <=> ml = id.ml /\ Message(q) = m
    BY <1>2, <2>3, SignedIff
  <2>. QED
    BY <1>1, <2>4, <2>6, <2>7 DEF VerifyMultisig
<1>. QED
  BY <1>3, <1>4, <1>5, <1>6

(* A create always verifies: its keys are in the request.                  *)
LEMMA CreateVerified ==
    ASSUME NEW id \in Ids, NEW c \in Cmds, NEW q,
           q.headers = RegisterRequest(id, c).headers, q.payload = id
    PROVE  VerifyMultisig(CreateMessage(q), q, q.payload.ed, q.payload.ml)
<1> DEFINE m == <<"CREATE", id.ed, id.ml, c>>
<1>1. id.ed # Nothing /\ id.ml # Nothing
  BY ClientServerAssumption, RequestsAssumption DEF Identities
<1>2. q.headers.mlSig # Nothing
  BY SignatureAssumption DEF Ops, Asks
<1>3. q.headers = AuthHeaders(id, m, c)
  BY DEF RegisterRequest, Request
<1>4. q.headers.fp = id.ed /\ CreateMessage(q) = m
  BY <1>3 DEF AuthHeaders, CreateMessage
<1> HIDE DEF m
<1>. QED
  BY <1>1, <1>2, <1>3, <1>4, SignedIff DEF VerifyMultisig

(* Of a command that was sent. *)
LEMMA SentFacts ==
    ASSUME TypeOK, CommandsOK, NEW c \in Cmds, cmd[c].st # "idle"
    PROVE  /\ cmd[c] \in Commands /\ cmd[c].id \in Ids /\ cmd[c].op \in Ops
           /\ cmd[c].q \in Asks(cmd[c].op, cmd[c].id, c) /\ cmd[c].q \in Arrivals
           /\ cmd[c].q.headers.fp = cmd[c].id.ed /\ cmd[c].q.headers.nonce = c
           /\ cmd[c].q.route = RouteOf(cmd[c].op)
           /\ cmd[c].op = "register" =>
                 cmd[c].q = RegisterRequest(cmd[c].id, c) /\ cmd[c].q.payload = cmd[c].id
           /\ cmd[c].op \in {"upload", "delete"} => cmd[c].q.payload \in Files
           /\ cmd[c].id.ed \in Eds /\ cmd[c].id.ml \in Mls
<1>1. cmd[c] \in Commands
  BY DEF TypeOK, Idle
<1>2. cmd[c].id \in Ids /\ cmd[c].op \in Ops /\ cmd[c].q \in Asks(cmd[c].op, cmd[c].id, c)
  BY <1>1 DEF Commands, CommandsOK
<1>. QED
  BY <1>1, <1>2, AskedFacts

LEMMA LiveFacts ==
    ASSUME IInv, NEW c \in Cmds, NEW k \in {1, 2}, Works(c, k)
    PROVE  /\ <<c, k>> \in Copies
           /\ server[<<c, k>>] \in Reading \union Knowing
           /\ server[<<c, k>>].st \in {"create", "register", "account", "share"} =>
                 server[<<c, k>>] \in Reading
           /\ server[<<c, k>>].st \in {"owner", "upload", "delete", "revoke", "list"} =>
                 server[<<c, k>>] \in Knowing
           /\ server[<<c, k>>].q \in Arrivals
           /\ cmd[c].st # "idle" /\ CopyOK(<<c, k>>)
<1>1. <<c, k>> \in Copies
  BY DEF Copies
<1>2. server[<<c, k>>] \in {Idle, Over} \union Answers \union Reading \union Knowing
  BY <1>1 DEF IInv, TypeOK
<1>3. /\ server[<<c, k>>] \in Reading \union Knowing
      /\ server[<<c, k>>].st \in {"create", "register", "account", "share"} =>
            server[<<c, k>>] \in Reading
      /\ server[<<c, k>>].st \in {"owner", "upload", "delete", "revoke", "list"} =>
            server[<<c, k>>] \in Knowing
  BY <1>2 DEF Works, Live, Idle, Over, Answers, Reading, Knowing
<1>4. server[<<c, k>>].q \in Arrivals
  BY <1>3 DEF Reading, Knowing
<1>5. cmd[c].st # "idle"
  BY DEF IInv, CommandsOK, Works, Live
<1>6. CopyOK(<<c, k>>)
  BY <1>1 DEF IInv, CopiesOK, Works
<1>. QED
  BY <1>1, <1>3, <1>4, <1>5, <1>6

-----------------------------------------------------------------------------
(* How accounts change while the server runs: none is removed, and one is  *)
(* replaced only after a race.                                             *)
AccountsGrow ==
    /\ accounts' \in [Eds -> Mls \union {Nothing}]
    /\ \A e \in Eds : \/ accounts'[e] = accounts[e]
                      \/ (accounts[e] = Nothing \/ e \in raced) /\ accounts'[e] # Nothing
    /\ raced \subseteq raced' /\ raced' \subseteq Eds

LEMMA ClaimGrows ==
    ASSUME TypeOK, CommandsOK, UNCHANGED <<store, restarts, cmd>>,
           damages <= damages', damages' \in Nat, AccountsGrow,
           NEW c \in Cmds, cmd[c].st # "idle", NEW s, Claim(c, s)
    PROVE  Claim(c, s)'
<1>1. cmd[c].id.ed \in Eds /\ cmd[c].id.ml \in Mls /\ cmd[c].id.ml # Nothing
  BY SentFacts, RequestsAssumption
<1>2. damages \in Nat
  BY DEF TypeOK
<1>. QED
  BY <1>1, <1>2 DEF Claim, Kept, AccountsGrow

LEMMA CopyStays ==
    ASSUME IInv, NEW c \in Cmds, NEW k \in {1, 2}, Works(c, k),
           server'[<<c, k>>] = server[<<c, k>>], UNCHANGED cmd,
           damages <= damages', damages' \in Nat, AccountsGrow
    PROVE  CopyOK(<<c, k>>)'
<1>1. /\ CopyOK(<<c, k>>) /\ cmd[c].id.ed \in Eds
      /\ server[<<c, k>>].st = "owner" => server[<<c, k>>].ml \in Mls
  BY ZenonT(60), LiveFacts, SentFacts DEF IInv, Knowing
<1>2. damages \in Nat
  BY DEF IInv, TypeOK
<1>3. server[<<c, k>>].st = "owner" =>
        accounts'[cmd[c].id.ed] = server[<<c, k>>].ml \/ cmd[c].id.ed \in raced'
  <2>1. server[<<c, k>>].st = "owner" =>
          accounts[cmd[c].id.ed] = server[<<c, k>>].ml \/ cmd[c].id.ed \in raced
    BY <1>1 DEF CopyOK
  <2>. QED
    BY <1>1, <2>1, RequestsAssumption DEF AccountsGrow
<1>. QED
  BY <1>1, <1>2, <1>3 DEF CopyOK

(* A step of one copy of the request of command c: other commands do not   *)
(* notice.                                                                 *)
LEMMA CopyStep ==
    ASSUME IInv, NEW c \in Cmds, NEW k \in {1, 2}, cmd[c].st # "idle",
           server'[<<c, k>>].st # "idle",
           \A j \in Copies \ {<<c, k>>} : server'[j] = server[j],
           UNCHANGED <<store, restarts, cmd>>,
           damages <= damages', damages' \in Nat, AccountsGrow,
           used \subseteq used', used' \subseteq used \union {c},
           \A b \in Cmds \ {c} : acted'[b] = acted[b],
           acted[c] # <<>> => acted'[c] # <<>>,
           Works(c, k)' => CopyOK(<<c, k>>)',
           server'[<<c, k>>].st = "answer" => Outcome(c, server[<<c, k>>].status)',
           Kept /\ Refused(c) => Refused(c)',
           Kept => Once(c)'
    PROVE  CommandsOK' /\ CopiesOK' /\ OnceOK' /\ Outcomes'
<1>1. \A b \in Cmds, l \in {1, 2} : b # c \/ l # k => server'[<<b, l>>] = server[<<b, l>>]
  BY DEF Copies
<1>2. CommandsOK'
  <2>1. \A b \in Cmds : cmd[b].st = "idle" =>
          acted'[b] = <<>> /\ \A l \in {1, 2} : server'[<<b, l>>].st = "idle"
    BY <1>1 DEF IInv, CommandsOK
  <2>. QED
    BY <2>1 DEF IInv, CommandsOK
<1>3. CopiesOK'
  <2> SUFFICES ASSUME NEW j \in Copies, server'[j].st \in Live PROVE CopyOK(j)'
    BY DEF CopiesOK
  <2>1. PICK b \in Cmds, l \in {1, 2} : j = <<b, l>>
    BY DEF Copies
  <2>2. CASE b = c /\ l = k
    BY <2>1, <2>2 DEF Works
  <2>3. CASE b # c \/ l # k
    <3>1. server'[j] = server[j] /\ Works(b, l)
      BY <1>1, <2>1, <2>3 DEF Works
    <3>. QED
      BY <2>1, <3>1, CopyStays
  <2>. QED
    BY <2>2, <2>3
<1>4. OnceOK'
  <2> SUFFICES ASSUME Kept, NEW b \in Cmds, b # c PROVE Once(b)'
    BY DEF OnceOK, Kept
  <2>1. Once(b)
    BY DEF IInv, OnceOK
  <2>2. \A l \in {1, 2} : server'[<<b, l>>] = server[<<b, l>>]
    BY <1>1
  <2>3. acted'[b] = acted[b]
    OBVIOUS
  <2>. QED
    BY <2>1, <2>2, <2>3 DEF Once, Works
<1>5. Kept' <=> Kept
  BY DEF Kept
<1>6. \A b \in Cmds \ {c} : Refused(b) => Refused(b)'
  BY <1>1 DEF Refused, Works
<1>7. ASSUME NEW b \in Cmds, cmd[b].st # "idle", NEW s, Outcome(b, s) PROVE Outcome(b, s)'
  <2>1. Claim(b, s)'
    BY <1>7, ClaimGrows DEF IInv, Outcome
  <2>2. acted[b] # <<>> => acted'[b] # <<>>
    OBVIOUS
  <2>3. Kept /\ Refused(b) => Refused(b)'
    BY <1>6
  <2>. QED
    BY <1>5, <1>7, <2>1, <2>2, <2>3 DEF Outcome
<1>8. Outcomes'
  <2> SUFFICES ASSUME NEW b \in Cmds
               PROVE  /\ cmd[b].st \in Statuses => Outcome(b, cmd[b].st)'
                      /\ \A l \in {1, 2} : server'[<<b, l>>].st = "answer" =>
                            Outcome(b, server[<<b, l>>].status)'
    BY DEF Outcomes
  <2>1. cmd[b].st \in Statuses => Outcome(b, cmd[b].st)'
    <3>1. cmd[b].st \in Statuses => Outcome(b, cmd[b].st) /\ cmd[b].st # "idle"
      BY DEF IInv, Outcomes, Statuses, Errors
    <3>. QED
      BY <1>7, <3>1
  <2>2. ASSUME NEW l \in {1, 2}, server'[<<b, l>>].st = "answer"
        PROVE  Outcome(b, server[<<b, l>>].status)'
    <3>1. CASE b = c /\ l = k
      BY <2>2, <3>1
    <3>2. CASE b # c \/ l # k
      <4>1. server'[<<b, l>>] = server[<<b, l>>]
        BY <1>1, <3>2
      <4>2. Outcome(b, server[<<b, l>>].status)
        BY <2>2, <4>1 DEF IInv, Outcomes
      <4>3. cmd[b].st # "idle"
        BY <2>2, <4>1 DEF IInv, CommandsOK
      <4>4. PICK s : s = server[<<b, l>>].status
        OBVIOUS
      <4>5. Outcome(b, s)'
        BY <1>7, <4>2, <4>3, <4>4
      <4>. QED
        BY <4>1, <4>4, <4>5 DEF Outcome, Claim
    <3>. QED
      BY <3>1, <3>2
  <2>. QED
    BY <2>1, <2>2
<1>. QED
  BY <1>2, <1>3, <1>4, <1>8

LEMMA AppendFacts ==
    ASSUME NEW S, NEW s \in Seq(S), NEW d \in S
    PROVE  /\ Append(s, d) \in Seq(S) /\ Append(s, d) # <<>>
           /\ s = <<>> => Len(Append(s, d)) = 1
           /\ \A n \in DOMAIN Append(s, d) :
                 Append(s, d)[n] = d \/ (n \in DOMAIN s /\ Append(s, d)[n] = s[n])
OBVIOUS

(* What the server is to do for a command. *)
DeedOf(c) ==
    [op |-> cmd[c].op, fp |-> cmd[c].id.ed, ml |-> cmd[c].id.ml,
     target |-> IF cmd[c].op = "register" THEN Nothing ELSE cmd[c].q.payload]

LEMMA DeedType ==
    ASSUME TypeOK, CommandsOK, NEW c \in Cmds, cmd[c].st # "idle", cmd[c].op # "download_share"
    PROVE  DeedOf(c) \in Deeds
<1>1. /\ cmd[c].op \in Ops /\ cmd[c].q \in Arrivals
      /\ cmd[c].id.ed \in Eds /\ cmd[c].id.ml \in Mls
  BY SentFacts
<1>. QED
  BY <1>1 DEF DeedOf, Deeds, Arrivals

(* A copy the server is working on goes to its next stage, or is answered, *)
(* and only with "ok" if the server acts.                                  *)
LEMMA LiveStep ==
    ASSUME IInv, NEW c \in Cmds, NEW k \in {1, 2}, Works(c, k),
           NEW x \in Answers \union Reading \union Knowing,
           server' = [server EXCEPT ![<<c, k>>] = x],
           UNCHANGED <<store, used, expired, cmd, duplicates, damages, restarts>>,
           AccountsGrow, owners' \in [Files -> Eds \union {Nothing}], shares' \subseteq Shared,
           \/ acted' = acted /\ (x.st = "answer" => x.status # "ok")
           \/ /\ x.st = "answer" /\ x.status = "ok"
              /\ acted' = [acted EXCEPT ![c] = Append(acted[c], DeedOf(c))],
           x.st \in Live => CopyOK(<<c, k>>)',
           x.st = "answer" => Claim(c, x.status)'
    PROVE  TypeOK' /\ CommandsOK' /\ CopiesOK' /\ OnceOK' /\ Outcomes' /\ ActedAsAsked'
<1>1. <<c, k>> \in Copies /\ cmd[c].st # "idle"
  BY LiveFacts
<1>2. /\ server'[<<c, k>>] = x /\ \A j \in Copies \ {<<c, k>>} : server'[j] = server[j]
      /\ server' \in [Copies -> {Idle, Over} \union Answers \union Reading \union Knowing]
  BY <1>1 DEF IInv, TypeOK
<1>3. DeedOf(c) \in Deeds /\ acted[c] \in Seq(Deeds)
  <2>1. server[<<c, k>>].st \in Live /\ cmd[c].op \in OpsAt(server[<<c, k>>].st)
    BY LiveFacts DEF CopyOK, Works
  <2>2. cmd[c].op # "download_share"
    BY <2>1 DEF OpsAt, Live
  <2>. QED
    BY <1>1, <2>2, DeedType DEF IInv, TypeOK
<1> DEFINE longer == Append(acted[c], DeedOf(c))
<1>4. /\ longer \in Seq(Deeds) /\ longer # <<>>
      /\ acted[c] = <<>> => Len(longer) = 1
      /\ \A n \in DOMAIN longer :
            longer[n] = DeedOf(c) \/ (n \in DOMAIN acted[c] /\ longer[n] = acted[c][n])
  BY <1>3, AppendFacts
<1> HIDE DEF longer
<1>5. /\ acted' \in [Cmds -> Seq(Deeds)]
      /\ \A b \in Cmds \ {c} : acted'[b] = acted[b]
      /\ acted'[c] = acted[c] \/ acted'[c] = longer
      /\ acted'[c] # acted[c] => x.st = "answer"
      /\ x.st = "answer" /\ x.status = "ok" => acted'[c] = longer
      /\ x.st = "answer" /\ x.status # "ok" => acted'[c] = acted[c]
  BY <1>4 DEF longer, IInv, TypeOK
<1>6. TypeOK'
  BY <1>2, <1>5 DEF IInv, TypeOK, AccountsGrow
<1>7. ActedAsAsked'
  <2>1. \A b \in Cmds : \A n \in DOMAIN acted[b] : acted[b][n] = DeedOf(b)
    BY DEF IInv, ActedAsAsked, DeedOf
  <2>2. \A b \in Cmds : \A n \in DOMAIN acted'[b] : acted'[b][n] = DeedOf(b)
    BY <1>4, <1>5, <2>1
  <2>3. \A b \in Cmds : DeedOf(b)' = DeedOf(b)
    BY DEF DeedOf
  <2>. QED
    BY <2>2, <2>3 DEF ActedAsAsked, DeedOf
<1>8. x.st # "idle"
  BY DEF Answers, Reading, Knowing
<1>9. Kept' <=> Kept
  BY DEF Kept
<1>10. Kept => Once(c) /\ c \in used /\ acted[c] = <<>>
             /\ \A l \in {1, 2} \ {k} : ~ Works(c, l) /\ ~ Works(c, l)'
  <2>1. Kept => Once(c) /\ c \in used /\ acted[c] = <<>>
                /\ \A l \in {1, 2} \ {k} : ~ Works(c, l)
    BY DEF IInv, OnceOK, Once
  <2>2. \A l \in {1, 2} \ {k} : Works(c, l)' <=> Works(c, l)
    BY <1>2 DEF Works, Copies
  <2>. QED
    BY <2>1, <2>2
<1>11. Kept => Once(c)'
  <2>1. Kept /\ x.st = "answer" => ~ Works(c, k)'
    BY <1>2 DEF Works, Live
  <2>2. Len(<<>>) = 0
    OBVIOUS
  <2>. QED
    BY <1>4, <1>5, <1>10, <2>1, <2>2 DEF Once
<1>12. ASSUME x.st = "answer" PROVE Outcome(c, x.status)'
  <2>1. x.status = "ok" => acted'[c] # <<>>
    BY <1>4, <1>5, <1>12
  <2>2. Kept /\ x.status \in Errors => Refused(c)'
    <3>1. ~ Works(c, k)'
      BY <1>2, <1>12 DEF Works, Live
    <3>2. x.status \in Errors => x.status # "ok"
      BY DEF Errors
    <3>. QED
      BY <1>5, <1>10, <1>12, <3>1, <3>2 DEF Refused
  <2>. QED
    BY <1>9, <1>12, <2>1, <2>2 DEF Outcome
<1>13. ~ Refused(c)
  BY DEF Refused
<1>14. x.st \in Live => CopyOK(<<c, k>>)'
  OBVIOUS
<1>15. CommandsOK' /\ CopiesOK' /\ OnceOK' /\ Outcomes'
  <2>1. damages \in Nat
    BY DEF IInv, TypeOK
  <2>2. acted[c] # <<>> => acted'[c] # <<>>
    BY <1>4, <1>5
  <2>3. Works(c, k)' => CopyOK(<<c, k>>)'
    BY <1>2, <1>14 DEF Works
  <2>4. server'[<<c, k>>].st = "answer" => Outcome(c, server[<<c, k>>].status)'
    BY <1>2, <1>12 DEF Outcome, Claim
  <2>5. used \subseteq used' /\ used' \subseteq used \union {c}
    OBVIOUS
  <2>6. /\ server'[<<c, k>>].st # "idle"
        /\ \A j \in Copies \ {<<c, k>>} : server'[j] = server[j]
        /\ \A b \in Cmds \ {c} : acted'[b] = acted[b]
        /\ UNCHANGED <<store, restarts, cmd>> /\ damages <= damages' /\ damages' \in Nat
    BY <1>2, <1>5, <1>8, <2>1
  <2>7. Kept /\ Refused(c) => Refused(c)'
    BY <1>13
  <2> HIDE DEF longer
  <2>. QED
    BY <1>1, <1>11, <2>2, <2>3, <2>4, <2>5, <2>6, <2>7, CopyStep
<1>. QED
  BY <1>6, <1>7, <1>15

(* Who does not register disturbs no create. *)
LEMMA RaceStays ==
    ASSUME IInv, UNCHANGED <<accounts, raced>>,
           \A j \in Copies : server'[j].st = "register" => server'[j] = server[j]
    PROVE  CreatesRace'
<1>1. \A j \in Copies, e \in Eds : Registers(j, e)' => Registers(j, e)
  BY DEF Registers
<1>. QED
  BY <1>1 DEF IInv, CreatesRace

(* An answer other than "ok" needs only what its status claims.            *)
LEMMA AnswerStep ==
    ASSUME IInv, NEW c \in Cmds, NEW k \in {1, 2}, Works(c, k),
           NEW s \in Statuses \ {"ok"}, Answer(<<c, k>>, s), Claim(c, s),
           UNCHANGED <<store, accounts, nonces, owners, shares, cmd, faults, acted, raced>>
    PROVE  IInv'
<1> DEFINE x == [st |-> "answer", status |-> s]
<1>1. x \in Answers /\ x.st = "answer" /\ x.status = s
  BY DEF Answers
<1>2. server' = [server EXCEPT ![<<c, k>>] = x]
  BY DEF Answer
<1> HIDE DEF x
<1>3. AccountsGrow
  BY DEF AccountsGrow, IInv, TypeOK
<1>4. Claim(c, s)'
  BY DEF Claim, Kept, faults
<1>5. TypeOK' /\ CommandsOK' /\ CopiesOK' /\ OnceOK' /\ Outcomes' /\ ActedAsAsked'
  <2>1. /\ UNCHANGED <<store, used, expired, cmd, duplicates, damages, restarts>>
        /\ acted' = acted /\ (x.st = "answer" => x.status # "ok")
        /\ owners' \in [Files -> Eds \union {Nothing}] /\ shares' \subseteq Shared
    BY <1>1 DEF nonces, faults, IInv, TypeOK
  <2>2. x.st \notin Live
    BY <1>1 DEF Live
  <2>3. x.st = "answer" => Claim(c, x.status)'
    BY <1>1, <1>4 DEF Claim
  <2>. QED
    BY <1>1, <1>2, <1>3, <2>1, <2>2, <2>3, LiveStep
<1>6. CreatesRace'
  <2>1. \A j \in Copies : server'[j].st = "register" => server'[j] = server[j]
    BY <1>1, <1>2 DEF IInv, TypeOK
  <2>. QED
    BY <2>1, RaceStays
<1>. QED
  BY <1>5, <1>6 DEF IInv

(* A copy that goes on, while nothing else changes. *)
LEMMA GoesOnStep ==
    ASSUME IInv, NEW c \in Cmds, NEW k \in {1, 2}, Works(c, k),
           NEW x \in Reading \union Knowing, x.st \in Live \ {"register"},
           server' = [server EXCEPT ![<<c, k>>] = x], CopyOK(<<c, k>>)',
           UNCHANGED <<store, accounts, nonces, owners, shares, cmd, faults, acted, raced>>
    PROVE  IInv'
<1>1. AccountsGrow
  BY DEF AccountsGrow, IInv, TypeOK
<1>2. TypeOK' /\ CommandsOK' /\ CopiesOK' /\ OnceOK' /\ Outcomes' /\ ActedAsAsked'
  <2>1. /\ UNCHANGED <<store, used, expired, cmd, duplicates, damages, restarts>>
        /\ acted' = acted
        /\ owners' \in [Files -> Eds \union {Nothing}] /\ shares' \subseteq Shared
    BY DEF nonces, faults, IInv, TypeOK
  <2>2. x.st # "answer"
    BY DEF Live
  <2>. QED
    BY <1>1, <2>1, <2>2, LiveStep
<1>3. CreatesRace'
  <2>1. \A j \in Copies : server'[j].st = "register" => server'[j] = server[j]
    BY DEF IInv, TypeOK
  <2>. QED
    BY <2>1, RaceStays
<1>. QED
  BY <1>2, <1>3 DEF IInv

LEMMA LookUpShareStep ==
    ASSUME IInv, NEW i \in Copies, LookUpShare(i)
    PROVE  IInv'
<1>. PICK c \in Cmds, k \in {1, 2} : i = <<c, k>>
  BY DEF Copies
<1>. PICK q : q = server[i].q
  OBVIOUS
<1>1. Works(c, k) /\ server[i] \in Reading /\ server[i].st = "share" /\ CopyOK(i)
  BY LiveFacts DEF LookUpShare, Works, Live
<1>2. UNCHANGED <<store, accounts, nonces, owners, shares, cmd, faults, acted, raced>>
  BY DEF LookUpShare, history
<1>3. CASE Answer(i, "not_found") \/ Answer(i, "unauthorized")
  <2>1. PICK s \in {"not_found", "unauthorized"} : Answer(i, s)
    BY <1>3
  <2>2. s \in Statuses \ {"ok"} /\ Claim(c, s)
    BY DEF Statuses, Errors, Claim
  <2>. QED
    BY <1>1, <1>2, <2>1, <2>2, AnswerStep
<1>4. CASE Goes(i, "account")
  <2> DEFINE x == [server[i] EXCEPT !.st = "account"]
  <2>1. x \in Reading /\ x.st = "account" /\ x.q = q
    BY <1>1 DEF Reading
  <2>2. server' = [server EXCEPT ![i] = x]
    BY <1>4 DEF Goes
  <2> HIDE DEF x
  <2>3. server'[i] = x
    BY <2>2 DEF IInv, TypeOK
  <2>4. CopyOK(i)'
    BY <1>1, <1>2, <2>1, <2>3 DEF CopyOK, OpsAt, faults
  <2>5. x.st \in Live \ {"register"}
    BY <2>1 DEF Live
  <2>. QED
    BY <1>1, <1>2, <2>1, <2>2, <2>4, <2>5, GoesOnStep
<1>. QED
  BY <1>3, <1>4 DEF LookUpShare

(* What the server knows of the request of a copy it works on. *)
LEMMA CopyFacts ==
    ASSUME IInv, NEW c \in Cmds, NEW k \in {1, 2}, Works(c, k), NEW q, q = server[<<c, k>>].q
    PROVE  /\ q \in Arrivals /\ q.headers = cmd[c].q.headers /\ q.route = cmd[c].q.route
           /\ q.headers.fp = cmd[c].id.ed /\ q.route = RouteOf(cmd[c].op)
           /\ q.payload # cmd[c].q.payload =>
                 cmd[c].op = "upload" /\ damages > 0 /\ q.payload \in Files
           /\ cmd[c].op \in OpsAt(server[<<c, k>>].st)
           /\ cmd[c].op \in {"upload", "delete"} => q.payload \in Files
<1>1. q \in Arrivals /\ CopyOK(<<c, k>>) /\ cmd[c].st # "idle"
  BY LiveFacts
<1>2. /\ cmd[c].q.headers.fp = cmd[c].id.ed /\ cmd[c].q.route = RouteOf(cmd[c].op)
      /\ cmd[c].op \in {"upload", "delete"} => cmd[c].q.payload \in Files
  BY <1>1, SentFacts DEF IInv
<1>3. /\ q.headers = cmd[c].q.headers /\ q.route = cmd[c].q.route
      /\ q.payload # cmd[c].q.payload =>
            cmd[c].op = "upload" /\ damages > 0 /\ q.payload \in Files
      /\ cmd[c].op \in OpsAt(server[<<c, k>>].st)
  BY <1>1 DEF CopyOK
<1>. QED
  BY <1>1, <1>2, <1>3

LEMMA CopyVerified ==
    ASSUME IInv, NEW c \in Cmds, NEW k \in {1, 2}, Works(c, k), NEW q, q = server[<<c, k>>].q,
           cmd[c].op \in {"upload", "delete", "revoke", "list_shares"}, NEW ml \in Mls
    PROVE  VerifyMultisig(Message(q), q, q.headers.fp, ml)
             <=> ml = cmd[c].id.ml /\ q.payload = cmd[c].q.payload
<1>1. PICK id, q0, op : id = cmd[c].id /\ q0 = cmd[c].q /\ op = cmd[c].op
  OBVIOUS
<1>2. id \in Ids /\ op \in {"upload", "delete", "revoke", "list_shares"} /\ q0 \in Asks(op, id, c)
  BY <1>1, SentFacts, LiveFacts DEF IInv
<1>3. q.route = q0.route /\ q.headers = q0.headers /\ (op = "upload" \/ q.payload = q0.payload)
  BY <1>1, CopyFacts
<1>4. VerifyMultisig(Message(q), q, q.headers.fp, ml) <=> ml = id.ml /\ q.payload = q0.payload
  BY <1>2, <1>3, VerifiedIff
<1>. QED
  BY <1>1, <1>4

LEMMA LookUpAccountStep ==
    ASSUME IInv, NEW i \in Copies, LookUpAccount(i)
    PROVE  IInv'
<1>. PICK c \in Cmds, k \in {1, 2} : i = <<c, k>>
  BY DEF Copies
<1>. PICK q, e, ml, op : /\ q = server[i].q /\ e = q.headers.fp /\ ml = accounts[e]
                         /\ op = cmd[c].op
  OBVIOUS
<1>1. Works(c, k) /\ server[i] \in Reading /\ server[i].st = "account" /\ CopyOK(i)
  BY LiveFacts DEF LookUpAccount, Works, Live
<1>2. UNCHANGED <<store, accounts, nonces, owners, shares, cmd, faults, acted, raced>>
  BY DEF LookUpAccount, history
<1>3. /\ op \in {"upload", "delete", "revoke", "list_shares"} /\ q \in Arrivals
      /\ e = cmd[c].id.ed /\ q.route = RouteOf(op)
      /\ q.headers = cmd[c].q.headers /\ q.route = cmd[c].q.route
      /\ q.payload # cmd[c].q.payload => op = "upload" /\ damages > 0 /\ q.payload \in Files
  BY ZenonT(60), <1>1, CopyFacts DEF OpsAt
<1>4. e \in Eds /\ ml \in Mls \union {Nothing}
  BY ZenonT(60), <1>1, <1>3, LiveFacts, SentFacts DEF IInv, TypeOK
<1>5. ml # Nothing => (VerifyMultisig(Message(q), q, e, ml)
                        <=> ml = cmd[c].id.ml /\ q.payload = cmd[c].q.payload)
  <2> SUFFICES ASSUME ml # Nothing
               PROVE  VerifyMultisig(Message(q), q, q.headers.fp, ml)
                        <=> ml = cmd[c].id.ml /\ q.payload = cmd[c].q.payload
    OBVIOUS
  <2>1. ml \in Mls /\ cmd[c].op \in {"upload", "delete", "revoke", "list_shares"}
    BY <1>3, <1>4
  <2>2. q = server[<<c, k>>].q /\ Works(c, k)
    BY <1>1
  <2>. QED
    BY ZenonT(60), <2>1, <2>2, CopyVerified
<1>10. ~ ListsOther(q)
  <2> SUFFICES ASSUME op = "list_shares" PROVE q.headers.fp = q.payload
    BY <1>3 DEF ListsOther, RouteOf
  <2>1. q.payload = cmd[c].q.payload /\ cmd[c].q \in Asks("list_shares", cmd[c].id, c)
    BY <1>1, <1>3, SentFacts, LiveFacts DEF IInv
  <2>. QED
    BY <1>3, <2>1 DEF Asks, ListSharesRequest, Request
<1>6. CASE ml = Nothing
  <2>1. Answer(i, "not_found")
    BY <1>6, <1>10 DEF LookUpAccount
  <2>2. "not_found" \in Statuses \ {"ok"} /\ Claim(c, "not_found")
    BY DEF Statuses, Errors, Claim
  <2>. QED
    BY <1>1, <1>2, <2>1, <2>2, AnswerStep
<1>7. CASE ml # Nothing /\ op = "delete"
  <2> DEFINE x == [st |-> "owner", q |-> q, ml |-> ml]
  <2>1. server' = [server EXCEPT ![i] = x]
    BY <1>3, <1>7, <1>10 DEF LookUpAccount, RouteOf
  <2>2. x \in Knowing /\ x.st = "owner" /\ x.q = q /\ x.ml = ml
    BY <1>3, <1>4, <1>7 DEF Knowing
  <2> HIDE DEF x
  <2>3. server'[i] = x
    BY <2>1 DEF IInv, TypeOK
  <2>4. CopyOK(i)'
    BY <1>2, <1>3, <1>7, <2>2, <2>3 DEF CopyOK, OpsAt, faults
  <2>5. x.st \in Live \ {"register"}
    BY <2>2 DEF Live
  <2>. QED
    BY <1>1, <1>2, <2>1, <2>2, <2>4, <2>5, GoesOnStep
<1>8. CASE /\ ml # Nothing /\ op # "delete"
           /\ VerifyMultisig(Message(q), q, e, ml)
  <2> DEFINE x == [st |-> After(q), q |-> q, ml |-> ml]
  <2>1. server' = [server EXCEPT ![i] = x]
    BY <1>3, <1>8, <1>10 DEF LookUpAccount, RouteOf
  <2>2. /\ op = "upload" => After(q) = "upload"
        /\ op = "revoke" => After(q) = "revoke"
        /\ op = "list_shares" => After(q) = "list"
    BY <1>3 DEF After, RouteOf
  <2>3. x \in Knowing /\ x.st = After(q) /\ x.q = q /\ x.ml = ml
    BY <1>3, <1>4, <1>8, <2>2 DEF Knowing
  <2> HIDE DEF x
  <2>4. server'[i] = x
    BY <2>1 DEF IInv, TypeOK
  <2>5. CopyOK(i)'
    BY <1>2, <1>3, <1>5, <1>8, <2>2, <2>3, <2>4 DEF CopyOK, OpsAt, faults
  <2>6. x.st \in Live \ {"register"}
    BY <1>3, <1>8, <2>2, <2>3 DEF Live
  <2>. QED
    BY <1>1, <1>2, <2>1, <2>3, <2>5, <2>6, GoesOnStep
<1>9. CASE /\ ml # Nothing /\ op # "delete"
           /\ ~ VerifyMultisig(Message(q), q, e, ml)
  <2>1. Answer(i, "signature")
    BY <1>3, <1>9, <1>10 DEF LookUpAccount, RouteOf
  <2>2. Claim(c, "signature")
    BY <1>3, <1>5, <1>9 DEF Claim
  <2>3. "signature" \in Statuses \ {"ok"}
    BY DEF Statuses, Errors
  <2>. QED
    BY <1>1, <1>2, <2>1, <2>2, <2>3, AnswerStep
<1>. QED
  BY <1>6, <1>7, <1>8, <1>9

LEMMA CheckOwnerStep ==
    ASSUME IInv, NEW i \in Copies, CheckOwner(i)
    PROVE  IInv'
<1>. PICK c \in Cmds, k \in {1, 2} : i = <<c, k>>
  BY DEF Copies
<1>. PICK q, ml : q = server[i].q /\ ml = server[i].ml
  OBVIOUS
<1>1. Works(c, k) /\ server[i] \in Knowing /\ server[i].st = "owner" /\ CopyOK(i)
  BY LiveFacts DEF CheckOwner, Works, Live
<1>2. UNCHANGED <<store, accounts, nonces, owners, shares, cmd, faults, acted, raced>>
  BY DEF CheckOwner, history
<1>3. /\ cmd[c].op = "delete" /\ q \in Arrivals /\ ml \in Mls /\ ml # Nothing
      /\ q.headers.fp = cmd[c].id.ed /\ q.payload = cmd[c].q.payload
  BY ZenonT(60), <1>1, CopyFacts, RequestsAssumption DEF OpsAt, Knowing
<1>4. VerifyMultisig(Message(q), q, q.headers.fp, ml) <=> ml = cmd[c].id.ml
  BY <1>1, <1>3, CopyVerified
<1>5. CASE Answer(i, "unauthorized")
  <2>1. "unauthorized" \in Statuses \ {"ok"} /\ Claim(c, "unauthorized")
    BY DEF Statuses, Errors, Claim
  <2>. QED
    BY <1>1, <1>2, <1>5, <2>1, AnswerStep
<1>6. CASE Goes(i, "delete") /\ VerifyMultisig(Message(q), q, q.headers.fp, ml)
  <2> DEFINE x == [server[i] EXCEPT !.st = "delete"]
  <2>1. x \in Knowing /\ x.st = "delete" /\ x.q = q /\ x.ml = ml
    BY <1>1 DEF Knowing
  <2>2. server' = [server EXCEPT ![i] = x]
    BY <1>6 DEF Goes
  <2> HIDE DEF x
  <2>3. server'[i] = x
    BY <2>2 DEF IInv, TypeOK
  <2>4. CopyOK(i)'
    BY <1>1, <1>2, <1>3, <1>4, <1>6, <2>1, <2>3 DEF CopyOK, OpsAt, faults
  <2>5. x.st \in Live \ {"register"}
    BY <2>1 DEF Live
  <2>. QED
    BY <1>1, <1>2, <2>1, <2>2, <2>4, <2>5, GoesOnStep
<1>7. CASE Answer(i, "signature") /\ ~ VerifyMultisig(Message(q), q, q.headers.fp, ml)
  <2>1. Claim(c, "signature")
    BY <1>1, <1>3, <1>4, <1>7 DEF Claim, CopyOK
  <2>2. "signature" \in Statuses \ {"ok"}
    BY DEF Statuses, Errors
  <2>. QED
    BY <1>1, <1>2, <1>7, <2>1, <2>2, AnswerStep
<1>. QED
  BY <1>5, <1>6, <1>7 DEF CheckOwner

(* The server acts for a command, as it said, and answers "ok". *)
LEMMA ActStep ==
    ASSUME IInv, NEW c \in Cmds, NEW k \in {1, 2}, Works(c, k),
           Answer(<<c, k>>, "ok"),
           acted' = [acted EXCEPT ![c] = Append(acted[c], DeedOf(c))],
           UNCHANGED <<store, nonces, cmd, faults>>,
           AccountsGrow, owners' \in [Files -> Eds \union {Nothing}], shares' \subseteq Shared,
           Claim(c, "ok")'
    PROVE  TypeOK' /\ CommandsOK' /\ CopiesOK' /\ OnceOK' /\ Outcomes' /\ ActedAsAsked'
<1> DEFINE x == [st |-> "answer", status |-> "ok"]
<1>1. x \in Answers /\ x.st = "answer" /\ x.status = "ok"
  BY DEF Answers, Statuses
<1>2. server' = [server EXCEPT ![<<c, k>>] = x]
  BY DEF Answer
<1> HIDE DEF x
<1>3. UNCHANGED <<store, used, expired, cmd, duplicates, damages, restarts>>
  BY DEF nonces, faults
<1>4. x.st \notin Live
  BY <1>1 DEF Live
<1>5. x.st = "answer" => Claim(c, x.status)'
  BY <1>1 DEF Claim
<1>. QED
  BY <1>1, <1>2, <1>3, <1>4, <1>5, LiveStep

(* The steps after the signatures have what they need to act. *)
LEMMA VerifiedFacts ==
    ASSUME IInv, NEW c \in Cmds, NEW k \in {1, 2},
           server[<<c, k>>].st \in {"upload", "delete", "revoke", "list"}
    PROVE  /\ Works(c, k) /\ cmd[c].op \in OpsAt(server[<<c, k>>].st)
           /\ cmd[c].op # "register"
           /\ server[<<c, k>>].q.headers.fp \in Eds
           /\ cmd[c].op \in {"upload", "delete"} => server[<<c, k>>].q.payload \in Files
           /\ Acts(<<c, k>>, cmd[c].op, server[<<c, k>>].q.payload, server[<<c, k>>].ml) =>
                 acted' = [acted EXCEPT ![c] = Append(acted[c], DeedOf(c))]
<1>1. Works(c, k)
  BY DEF Works, Live
<1>. PICK q, ml, op : q = server[<<c, k>>].q /\ ml = server[<<c, k>>].ml /\ op = cmd[c].op
  OBVIOUS
<1>2. /\ q.headers.fp = cmd[c].id.ed /\ op \in OpsAt(server[<<c, k>>].st)
      /\ op \in {"upload", "delete"} => q.payload \in Files
  BY <1>1, CopyFacts
<1>3. q.payload = cmd[c].q.payload /\ ml = cmd[c].id.ml
  BY <1>1, LiveFacts DEF CopyOK
<1>4. cmd[c].id.ed \in Eds
  BY <1>1, LiveFacts, SentFacts DEF IInv
<1>5. op # "register"
  BY <1>2 DEF OpsAt
<1>6. DeedOf(c) = [op |-> op, fp |-> q.headers.fp, ml |-> ml, target |-> q.payload]
  BY <1>2, <1>3, <1>5 DEF DeedOf
<1>7. Acts(<<c, k>>, op, q.payload, ml) =>
        acted' = [acted EXCEPT ![c] = Append(acted[c], DeedOf(c))]
  BY <1>6 DEF Acts
<1>. QED
  BY <1>1, <1>2, <1>4, <1>5, <1>7

LEMMA ActedIInv ==
    ASSUME IInv, NEW c \in Cmds, NEW k \in {1, 2}, Works(c, k), cmd[c].op # "register",
           Answer(<<c, k>>, "ok"),
           acted' = [acted EXCEPT ![c] = Append(acted[c], DeedOf(c))],
           UNCHANGED <<store, accounts, nonces, cmd, faults, raced>>,
           owners' \in [Files -> Eds \union {Nothing}], shares' \subseteq Shared
    PROVE  IInv'
<1>1. AccountsGrow
  BY DEF AccountsGrow, IInv, TypeOK
<1>2. Claim(c, "ok")'
  BY DEF Claim
<1>3. CreatesRace'
  <2>1. \A j \in Copies : server'[j].st = "register" => server'[j] = server[j]
    BY DEF Answer, IInv, TypeOK
  <2>. QED
    BY <2>1, RaceStays
<1>. QED
  BY <1>1, <1>2, <1>3, ActStep DEF IInv

LEMMA StoreUploadStep ==
    ASSUME IInv, NEW i \in Copies, StoreUpload(i)
    PROVE  IInv'
<1>. PICK c \in Cmds, k \in {1, 2} : i = <<c, k>>
  BY DEF Copies
<1>1. /\ Works(c, k) /\ cmd[c].op = "upload"
      /\ server[i].q.payload \in Files /\ server[i].q.headers.fp \in Eds
      /\ Acts(i, "upload", server[i].q.payload, server[i].ml) =>
            acted' = [acted EXCEPT ![c] = Append(acted[c], DeedOf(c))]
  <2>1. server[<<c, k>>].st = "upload"
    BY DEF StoreUpload
  <2>2. cmd[c].op = "upload"
    BY <2>1, VerifiedFacts DEF OpsAt
  <2>. QED
    BY <2>1, <2>2, VerifiedFacts DEF StoreUpload
<1>2. UNCHANGED <<store, accounts, nonces, shares, cmd, faults, raced>>
  BY DEF StoreUpload
<1>3. CASE Answer(i, "internal") /\ UNCHANGED <<owners, acted>>
  <2>1. "internal" \in Statuses \ {"ok"} /\ Claim(c, "internal")
    BY DEF Statuses, Claim
  <2>. QED
    BY <1>1, <1>2, <1>3, <2>1, AnswerStep
<1>4. CASE /\ owners' = [owners EXCEPT ![server[i].q.payload] = server[i].q.headers.fp]
           /\ Acts(i, "upload", server[i].q.payload, server[i].ml)
           /\ Answer(i, "ok")
  <2>1. owners' \in [Files -> Eds \union {Nothing}] /\ shares' \subseteq Shared
    BY <1>1, <1>2, <1>4 DEF IInv, TypeOK
  <2>2. cmd[c].op # "register" /\ acted' = [acted EXCEPT ![c] = Append(acted[c], DeedOf(c))]
    BY <1>1, <1>4
  <2>3. Works(c, k) /\ Answer(<<c, k>>, "ok")
        /\ UNCHANGED <<store, accounts, nonces, cmd, faults, raced>>
    BY <1>1, <1>2, <1>4
  <2>. QED
    BY <2>1, <2>2, <2>3, ActedIInv
<1>. QED
  BY <1>3, <1>4 DEF StoreUpload

LEMMA DeleteFileStep ==
    ASSUME IInv, NEW i \in Copies, DeleteFile(i)
    PROVE  IInv'
<1>. PICK c \in Cmds, k \in {1, 2} : i = <<c, k>>
  BY DEF Copies
<1>1. /\ Works(c, k) /\ cmd[c].op = "delete" /\ server[i].q.payload \in Files
      /\ Acts(i, "delete", server[i].q.payload, server[i].ml) =>
            acted' = [acted EXCEPT ![c] = Append(acted[c], DeedOf(c))]
  <2>1. server[<<c, k>>].st = "delete"
    BY DEF DeleteFile
  <2>2. cmd[c].op = "delete"
    BY <2>1, VerifiedFacts DEF OpsAt
  <2>. QED
    BY <2>1, <2>2, VerifiedFacts DEF DeleteFile
<1>2. UNCHANGED <<store, accounts, nonces, shares, cmd, faults, raced>>
  BY DEF DeleteFile
<1>3. CASE Answer(i, "internal") /\ UNCHANGED <<owners, acted>>
  <2>1. "internal" \in Statuses \ {"ok"} /\ Claim(c, "internal")
    BY DEF Statuses, Claim
  <2>. QED
    BY <1>1, <1>2, <1>3, <2>1, AnswerStep
<1>4. CASE /\ owners' = [owners EXCEPT ![server[i].q.payload] = Nothing]
           /\ Acts(i, "delete", server[i].q.payload, server[i].ml)
           /\ Answer(i, "ok")
  <2>1. owners' \in [Files -> Eds \union {Nothing}] /\ shares' \subseteq Shared
    BY <1>1, <1>2, <1>4 DEF IInv, TypeOK
  <2>2. cmd[c].op # "register" /\ acted' = [acted EXCEPT ![c] = Append(acted[c], DeedOf(c))]
    BY <1>1, <1>4
  <2>3. Works(c, k) /\ Answer(<<c, k>>, "ok")
        /\ UNCHANGED <<store, accounts, nonces, cmd, faults, raced>>
    BY <1>1, <1>2, <1>4
  <2>. QED
    BY <2>1, <2>2, <2>3, ActedIInv
<1>. QED
  BY <1>3, <1>4 DEF DeleteFile

LEMMA DeleteShareStep ==
    ASSUME IInv, NEW i \in Copies, DeleteShare(i)
    PROVE  IInv'
<1>. PICK c \in Cmds, k \in {1, 2} : i = <<c, k>>
  BY DEF Copies
<1>1. /\ Works(c, k) /\ cmd[c].op = "revoke"
      /\ acted' = [acted EXCEPT ![c] = Append(acted[c], DeedOf(c))]
  <2>1. server[<<c, k>>].st = "revoke"
    BY DEF DeleteShare
  <2>2. cmd[c].op = "revoke"
    BY <2>1, VerifiedFacts DEF OpsAt
  <2>. QED
    BY <2>1, <2>2, VerifiedFacts DEF DeleteShare
<1>2. /\ UNCHANGED <<store, accounts, nonces, owners, cmd, faults, raced>>
      /\ Answer(i, "ok") /\ shares' \subseteq shares
  BY DEF DeleteShare
<1>3. owners' \in [Files -> Eds \union {Nothing}] /\ shares' \subseteq Shared
  BY <1>2 DEF IInv, TypeOK
<1>. QED
  BY <1>1, <1>2, <1>3, ActedIInv

LEMMA ListSharesStep ==
    ASSUME IInv, NEW i \in Copies, ListShares(i)
    PROVE  IInv'
<1>. PICK c \in Cmds, k \in {1, 2} : i = <<c, k>>
  BY DEF Copies
<1>1. /\ Works(c, k) /\ cmd[c].op = "list_shares"
      /\ acted' = [acted EXCEPT ![c] = Append(acted[c], DeedOf(c))]
  <2>1. server[<<c, k>>].st = "list"
    BY DEF ListShares
  <2>2. cmd[c].op = "list_shares"
    BY <2>1, VerifiedFacts DEF OpsAt
  <2>. QED
    BY <2>1, <2>2, VerifiedFacts DEF ListShares
<1>2. /\ UNCHANGED <<store, accounts, nonces, owners, shares, cmd, faults, raced>>
      /\ Answer(i, "ok")
  BY DEF ListShares
<1>3. owners' \in [Files -> Eds \union {Nothing}] /\ shares' \subseteq Shared
  BY <1>2 DEF IInv, TypeOK
<1>. QED
  BY <1>1, <1>2, <1>3, ActedIInv

(* Of two creates let past exists the second overwrites the first: the     *)
(* fingerprint has raced.                                                  *)
LEMMA CheckCreateStep ==
    ASSUME IInv, NEW i \in Copies, CheckCreate(i)
    PROVE  IInv'
<1>. PICK c \in Cmds, k \in {1, 2} : i = <<c, k>>
  BY DEF Copies
<1>. PICK q, e : q = server[i].q /\ e = q.payload.ed
  OBVIOUS
<1>1. Works(c, k) /\ server[i] \in Reading /\ server[i].st = "create" /\ CopyOK(i)
  BY LiveFacts DEF CheckCreate, Works, Live
<1>2. UNCHANGED <<store, accounts, nonces, owners, shares, cmd, faults, acted>>
  BY DEF CheckCreate
<1>3. /\ cmd[c].op = "register" /\ q.headers = cmd[c].q.headers /\ q.payload = cmd[c].q.payload
      /\ q.headers.fp = cmd[c].id.ed
  BY <1>1, CopyFacts DEF OpsAt
<1>4. /\ q.headers = RegisterRequest(cmd[c].id, c).headers /\ q.payload = cmd[c].id
      /\ cmd[c].id \in Ids /\ e \in Eds /\ e = cmd[c].id.ed
  BY <1>1, <1>3, LiveFacts, SentFacts DEF IInv
<1>5. VerifyMultisig(CreateMessage(q), q, e, q.payload.ml)
  BY <1>4, CreateVerified
<1>6. CASE accounts[e] # Nothing
  <2>1. Answer(i, "conflict") /\ UNCHANGED raced
    BY <1>3, <1>4, <1>5, <1>6 DEF CheckCreate
  <2>2. "conflict" \in Statuses \ {"ok"} /\ Claim(c, "conflict")
    BY <1>4, <1>6 DEF Statuses, Errors, Claim
  <2>. QED
    BY <1>1, <1>2, <2>1, <2>2, AnswerStep
<1>7. CASE accounts[e] = Nothing
  <2>1. /\ Goes(i, "register")
        /\ raced' = IF Others(i, e) = {} THEN raced ELSE raced \union {e}
    BY <1>3, <1>4, <1>5, <1>7 DEF CheckCreate
  <2> DEFINE x == [server[i] EXCEPT !.st = "register"]
  <2>2. x \in Reading /\ x.st = "register" /\ x.q = q
    BY <1>1 DEF Reading
  <2>3. server' = [server EXCEPT ![i] = x]
    BY <2>1 DEF Goes
  <2> HIDE DEF x
  <2>4. server'[i] = x /\ \A j \in Copies \ {i} : server'[j] = server[j]
    BY <2>3 DEF IInv, TypeOK
  <2>5. CopyOK(i)'
    BY <1>1, <1>2, <1>3, <2>2, <2>4 DEF CopyOK, OpsAt, faults
  <2>6. AccountsGrow
    BY <1>2, <1>4, <2>1 DEF AccountsGrow, IInv, TypeOK
  <2>7. TypeOK' /\ CommandsOK' /\ CopiesOK' /\ OnceOK' /\ Outcomes' /\ ActedAsAsked'
    <3>1. /\ UNCHANGED <<store, used, expired, cmd, duplicates, damages, restarts>>
          /\ acted' = acted /\ x.st # "answer"
          /\ owners' \in [Files -> Eds \union {Nothing}] /\ shares' \subseteq Shared
      BY <1>2, <2>2 DEF nonces, faults, IInv, TypeOK
    <3>. QED
      BY <1>1, <2>2, <2>3, <2>5, <2>6, <3>1, LiveStep
  <2>8. CreatesRace'
    <3> SUFFICES ASSUME NEW d \in Eds \ raced', NEW j \in Copies, NEW l \in Copies
                 PROVE  /\ Registers(j, d)' => accounts[d] = Nothing
                        /\ Registers(j, d)' /\ Registers(l, d)' => j = l
      BY <1>2 DEF CreatesRace
    <3>1. d \in Eds \ raced
      BY <2>6 DEF AccountsGrow
    <3>2. \A m \in Copies \ {i} : Registers(m, d)' <=> Registers(m, d)
      BY <2>4 DEF Registers
    <3>3. CASE d = e
      <4>1. \A m \in Copies \ {i} : ~ Registers(m, d)
        BY <2>1, <3>3 DEF Registers, Others
      <4>. QED
        BY <1>7, <3>2, <3>3, <4>1
    <3>4. CASE d # e
      <4>1. ~ Registers(i, d)'
        BY <2>2, <2>4, <3>4 DEF Registers
      <4>. QED
        BY <3>1, <3>2, <4>1 DEF IInv, CreatesRace
    <3>. QED
      BY <3>3, <3>4
  <2>. QED
    BY <2>7, <2>8 DEF IInv
<1>. QED
  BY <1>6, <1>7

LEMMA RegisterStep ==
    ASSUME IInv, NEW i \in Copies, Register(i)
    PROVE  IInv'
<1>. PICK c \in Cmds, k \in {1, 2} : i = <<c, k>>
  BY DEF Copies
<1>. PICK q, id, e : q = server[i].q /\ id = q.payload /\ e = id.ed
  OBVIOUS
<1>1. Works(c, k) /\ server[i].st = "register"
  BY DEF Register, Works, Live
<1>2. cmd[c].op = "register" /\ q.headers.fp = cmd[c].id.ed /\ q.payload = cmd[c].q.payload
  BY <1>1, CopyFacts DEF OpsAt
<1>3. id = cmd[c].id /\ e \in Eds /\ id.ml \in Mls /\ id.ml # Nothing
  <2>1. cmd[c].st # "idle"
    BY <1>1, LiveFacts
  <2>2. cmd[c].q.payload = cmd[c].id /\ cmd[c].id.ed \in Eds /\ cmd[c].id.ml \in Mls
    BY <1>2, <2>1, SentFacts DEF IInv
  <2>. QED
    BY <1>2, <2>2, RequestsAssumption
<1>4. /\ accounts' = [accounts EXCEPT ![e] = id.ml]
      /\ UNCHANGED <<store, nonces, owners, shares, cmd, faults, raced>>
      /\ Answer(i, "ok") /\ Acts(i, "register", Nothing, id.ml)
  BY DEF Register
<1>5. acted' = [acted EXCEPT ![c] = Append(acted[c], DeedOf(c))]
  <2>1. DeedOf(c) = [op |-> "register", fp |-> q.headers.fp, ml |-> id.ml, target |-> Nothing]
    BY <1>2, <1>3 DEF DeedOf
  <2>. QED
    BY <1>4, <2>1 DEF Acts
<1>6. Registers(i, e)
  BY <1>1 DEF Registers
<1>7. accounts[e] = Nothing \/ e \in raced
  BY <1>3, <1>6 DEF IInv, CreatesRace
<1>8. /\ accounts' \in [Eds -> Mls \union {Nothing}] /\ accounts'[e] = id.ml
      /\ \A d \in Eds \ {e} : accounts'[d] = accounts[d]
  BY <1>3, <1>4 DEF IInv, TypeOK
<1>9. AccountsGrow
  BY <1>3, <1>4, <1>7, <1>8 DEF AccountsGrow, IInv, TypeOK
<1>10. Claim(c, "ok")'
  BY <1>3, <1>4, <1>8 DEF Claim
<1>11. TypeOK' /\ CommandsOK' /\ CopiesOK' /\ OnceOK' /\ Outcomes' /\ ActedAsAsked'
  <2>1. owners' \in [Files -> Eds \union {Nothing}] /\ shares' \subseteq Shared
    BY <1>4 DEF IInv, TypeOK
  <2>2. Answer(<<c, k>>, "ok") /\ UNCHANGED <<store, nonces, cmd, faults>>
    BY <1>4
  <2>. QED
    BY <1>1, <1>5, <1>9, <1>10, <2>1, <2>2, ActStep
<1>12. CreatesRace'
  <2> SUFFICES ASSUME NEW d \in Eds \ raced, NEW j \in Copies, NEW l \in Copies
               PROVE  /\ Registers(j, d)' => accounts'[d] = Nothing
                      /\ Registers(j, d)' /\ Registers(l, d)' => j = l
    BY <1>4 DEF CreatesRace
  <2>1. \A m \in Copies : Registers(m, d)' => m # i /\ Registers(m, d)
    BY <1>4 DEF Registers, Answer, IInv, TypeOK
  <2>2. \A m \in Copies : Registers(m, d)' => d # e
    BY <1>6, <2>1 DEF IInv, CreatesRace
  <2>. QED
    BY <1>8, <2>1, <2>2 DEF IInv, CreatesRace
<1>. QED
  BY <1>11, <1>12 DEF IInv

(* A request that arrives gets past its nonce only once; what a route that *)
(* is not protected answers no command of the CLI acts on.                 *)
LEMMA ArrivalStep ==
    ASSUME IInv, NEW c \in Cmds, NEW k \in {1, 2}, NEW late,
           server[<<c, k>>] = Idle, cmd[c].st # "idle",
           NEW q \in Arrivals, q.headers = cmd[c].q.headers, q.route = cmd[c].q.route,
           q.payload # cmd[c].q.payload =>
              cmd[c].op = "upload" /\ damages' > 0 /\ q.payload \in Files,
           ValidateNonce(<<c, k>>, q, late),
           damages <= damages', damages' \in Nat, duplicates' \in Nat,
           expired' \subseteq Cmds,
           UNCHANGED <<store, accounts, owners, shares, cmd, restarts, history>>
    PROVE  IInv'
<1>1. <<c, k>> \in Copies
  BY DEF Copies
<1>2. q.headers.nonce = c /\ q.route = RouteOf(cmd[c].op) /\ cmd[c].op \in Ops
  BY SentFacts DEF IInv
<1>3. AccountsGrow
  BY DEF AccountsGrow, IInv, TypeOK, history
<1>4. ASSUME NEW x \in Answers \union Reading,
             server' = [server EXCEPT ![<<c, k>>] = x], x.st # "register",
             \/ x.st = "answer" /\ UNCHANGED used
             \/ x.st \in Live /\ c \notin used /\ used' = used \union {c}
                /\ cmd[c].op # "download_share",
             x.st \in Live => CopyOK(<<c, k>>)',
             x.st = "answer" => Outcome(c, x.status)'
      PROVE  IInv'
  <2>1. /\ server'[<<c, k>>] = x /\ \A j \in Copies \ {<<c, k>>} : server'[j] = server[j]
        /\ server' \in [Copies -> {Idle, Over} \union Answers \union Reading \union Knowing]
    BY <1>1, <1>4 DEF IInv, TypeOK
  <2>2. TypeOK'
    BY <1>4, <2>1 DEF IInv, TypeOK, history
  <2>3. ActedAsAsked'
    BY DEF IInv, ActedAsAsked, history
  <2>4. CreatesRace'
    <3>1. \A j \in Copies : server'[j].st = "register" => server'[j] = server[j]
      BY <1>4, <2>1
    <3>. QED
      BY <3>1, RaceStays DEF history
  <2>5. \A l \in {1, 2} \ {k} : Works(c, l)' <=> Works(c, l)
    BY <2>1 DEF Works, Copies
  <2>6. Works(c, k)' <=> x.st \in Live
    BY <2>1 DEF Works
  <2>7. ~ Works(c, k) /\ UNCHANGED acted
    BY DEF Works, Live, Idle, history
  <2>8. Kept => Once(c)'
    <3>1. Kept => Once(c)
      BY DEF IInv, OnceOK
    <3>2. x.st = "answer" => x.st \notin Live
      BY DEF Live
    <3>. QED
      BY <1>4, <2>5, <2>6, <2>7, <3>1, <3>2 DEF Once
  <2>9. Refused(c) => Refused(c)'
    <3>1. x.st = "answer" => x.st \notin Live
      BY DEF Live
    <3>. QED
      BY <1>4, <2>5, <2>6, <2>7, <3>1 DEF Refused
  <2>10. CommandsOK' /\ CopiesOK' /\ OnceOK' /\ Outcomes'
    <3>1. /\ server'[<<c, k>>].st # "idle" /\ used \subseteq used' /\ used' \subseteq used \union {c}
          /\ UNCHANGED <<store, restarts, cmd>>
          /\ \A b \in Cmds \ {c} : acted'[b] = acted[b]
          /\ acted[c] # <<>> => acted'[c] # <<>>
      BY <1>4, <2>1, <2>7 DEF Live
    <3>2. Works(c, k)' => CopyOK(<<c, k>>)'
      BY <1>4, <2>6
    <3>3. server'[<<c, k>>].st = "answer" => Outcome(c, server[<<c, k>>].status)'
      BY <1>4, <2>1 DEF Outcome, Claim
    <3>. QED
      BY <1>3, <2>1, <2>8, <2>9, <3>1, <3>2, <3>3, CopyStep
  <2>. QED
    BY <2>2, <2>3, <2>4, <2>10 DEF IInv
<1>5. CASE q.route \notin Protected
  <2> DEFINE x == [st |-> "answer", status |-> "no_route"]
  <2>1. /\ x \in Answers /\ x.st = "answer" /\ x.status = "no_route"
        /\ server' = [server EXCEPT ![<<c, k>>] = x] /\ UNCHANGED used
    BY <1>5 DEF ValidateNonce, Answer, Answers, Statuses, Errors
  <2> HIDE DEF x
  <2>2. cmd[c].op = "download_share"
    BY <1>2, <1>5 DEF RouteOf, Protected, Ops
  <2>3. acted[c] = <<>>
    <3>1. acted[c] \in Seq(Deeds)
      BY DEF IInv, TypeOK
    <3>2. ASSUME acted[c] # <<>> PROVE FALSE
      <4>1. 1 \in DOMAIN acted[c] /\ acted[c][1] \in Deeds
        BY <3>1, <3>2
      <4>2. acted[c][1] = DeedOf(c)
        BY <4>1 DEF IInv, ActedAsAsked, DeedOf
      <4>3. DeedOf(c).op = "download_share"
        BY <2>2 DEF DeedOf
      <4>4. acted[c][1].op # "download_share"
        BY <4>1 DEF Deeds
      <4>. QED
        BY <4>2, <4>3, <4>4
    <3>. QED
      BY <3>2
  <2>4. \A l \in {1, 2} : ~ Works(c, l)
    <3> SUFFICES ASSUME NEW l \in {1, 2}, Works(c, l) PROVE FALSE
      OBVIOUS
    <3>1. cmd[c].op \in OpsAt(server[<<c, l>>].st) /\ server[<<c, l>>].st \in Live
      BY CopyFacts DEF Works
    <3>. QED
      BY <2>2, <3>1 DEF OpsAt, Live
  <2>5. \A l \in {1, 2} : ~ Works(c, l)'
    BY <1>1, <2>1, <2>4 DEF Works, Live, Copies, IInv, TypeOK
  <2>6. Outcome(c, x.status)'
    BY <2>1, <2>2, <2>3, <2>5 DEF Outcome, Claim, Refused, history
  <2>7. x.st \notin Live
    BY <2>1 DEF Live
  <2>. QED
    BY <1>4, <2>1, <2>6, <2>7
<1>6. CASE q.route \in Protected /\ (late \/ q.headers.nonce \in used)
  <2> DEFINE x == [st |-> "answer", status |-> "nonce"]
  <2>1. /\ x \in Answers /\ x.st = "answer" /\ x.status = "nonce"
        /\ server' = [server EXCEPT ![<<c, k>>] = x] /\ UNCHANGED used
    BY <1>6 DEF ValidateNonce, Answer, Answers, Statuses
  <2> HIDE DEF x
  <2>2. Outcome(c, x.status)'
    BY <2>1 DEF Outcome, Claim, Errors
  <2>3. x.st \notin Live
    BY <2>1 DEF Live
  <2>. QED
    BY <1>4, <2>1, <2>2, <2>3
<1>7. CASE q.route \in Protected /\ ~ late /\ q.headers.nonce \notin used
  <2> DEFINE x == [st |-> First(q.route), q |-> q]
  <2>1. /\ server' = [server EXCEPT ![<<c, k>>] = x] /\ used' = used \union {c} /\ c \notin used
    BY <1>2, <1>7 DEF ValidateNonce
  <2>2. /\ cmd[c].op = "register" => First(q.route) = "create"
        /\ cmd[c].op \in {"upload", "delete", "list_shares"} => First(q.route) = "account"
        /\ cmd[c].op = "revoke" => First(q.route) = "share"
        /\ cmd[c].op # "download_share"
    BY <1>2, <1>7 DEF First, RouteOf, Protected
  <2>3. /\ x \in Reading /\ x.st = First(q.route) /\ x.q = q
        /\ x.st \in {"create", "account", "share"} /\ cmd[c].op \in OpsAt(x.st)
    BY <1>2, <2>2 DEF Reading, Ops, OpsAt
  <2> HIDE DEF x
  <2>4. server'[<<c, k>>] = x
    BY <1>1, <2>1 DEF IInv, TypeOK
  <2>5. CopyOK(<<c, k>>)'
    BY <2>3, <2>4 DEF CopyOK
  <2>6. x.st \in Live /\ x.st # "register" /\ x.st # "answer"
    BY <2>3 DEF Live
  <2>. QED
    BY <1>4, <2>1, <2>2, <2>3, <2>5, <2>6
<1>. QED
  BY <1>5, <1>6, <1>7

LEMMA DeliverStep ==
    ASSUME IInv, NEW i \in Copies, NEW late \in BOOLEAN, Deliver(i, late)
    PROVE  IInv'
<1>. PICK c \in Cmds, k \in {1, 2} : i = <<c, k>>
  BY DEF Copies
<1>1. /\ server[<<c, k>>] = Idle /\ cmd[c].st # "idle"
      /\ UNCHANGED <<store, accounts, owners, shares, cmd, restarts, history>>
      /\ expired' = (IF late THEN expired \union {c} ELSE expired)
      /\ duplicates' = (IF k = 2 THEN duplicates + 1 ELSE duplicates)
  BY DEF Deliver
<1>2. expired' \subseteq Cmds /\ duplicates' \in Nat /\ damages \in Nat
  BY <1>1 DEF IInv, TypeOK
<1>3. cmd[c].q \in Arrivals
  BY <1>1, SentFacts DEF IInv
<1>4. CASE ValidateNonce(i, cmd[c].q, late) /\ UNCHANGED damages
  <2>1. PICK q \in Arrivals : q = cmd[c].q
    BY <1>3
  <2>2. /\ ValidateNonce(<<c, k>>, q, late) /\ damages <= damages' /\ damages' \in Nat
        /\ q.payload = cmd[c].q.payload /\ q.headers = cmd[c].q.headers
        /\ q.route = cmd[c].q.route
    BY <1>2, <1>4, <2>1
  <2>. QED
    BY <1>1, <1>2, <2>2, ArrivalStep
<1>5. CASE /\ cmd[c].op = "upload"
           /\ \E f \in Files \ {cmd[c].q.payload} :
                 ValidateNonce(i, [cmd[c].q EXCEPT !.payload = f], late)
           /\ damages' = damages + 1
  <2>1. PICK f \in Files : ValidateNonce(i, [cmd[c].q EXCEPT !.payload = f], late)
    BY <1>5
  <2> DEFINE q == [cmd[c].q EXCEPT !.payload = f]
  <2>2. /\ q \in Arrivals /\ q.headers = cmd[c].q.headers /\ q.route = cmd[c].q.route
        /\ q.payload = f
    BY <1>3 DEF Arrivals, Payloads
  <2>3. ValidateNonce(<<c, k>>, q, late)
    BY <2>1
  <2> HIDE DEF q
  <2>4. damages' > 0 /\ damages <= damages' /\ damages' \in Nat
    BY <1>2, <1>5
  <2>. QED
    BY <1>1, <1>2, <1>5, <2>2, <2>3, <2>4, ArrivalStep
<1>. QED
  BY <1>4, <1>5 DEF Deliver

(* A command sends its request; nothing was done for it before. *)
LEMMA SendStep ==
    ASSUME IInv, NEW c \in Cmds, cmd[c] = Idle,
           NEW op \in Ops, NEW id \in Ids, NEW q \in Asks(op, id, c), Send(c, id, op, q)
    PROVE  IInv'
<1> DEFINE x == [st |-> "sent", id |-> id, op |-> op, q |-> q]
<1>1. q \in Arrivals
  BY AskedFacts
<1>2. x \in Commands /\ x.st = "sent" /\ x.id = id /\ x.op = op /\ x.q = q
  BY <1>1 DEF Commands
<1>3. cmd' = [cmd EXCEPT ![c] = x]
  BY DEF Send
<1> HIDE DEF x
<1>4. /\ UNCHANGED <<store, accounts, used, expired, owners, shares, server>>
      /\ UNCHANGED <<duplicates, damages, restarts, acted, raced>>
  BY DEF Send, nonces, faults, history
<1>5. /\ cmd'[c] = x /\ \A b \in Cmds \ {c} : cmd'[b] = cmd[b]
      /\ cmd' \in [Cmds -> {Idle} \union Commands]
  BY <1>2, <1>3 DEF IInv, TypeOK
<1>6. acted[c] = <<>> /\ \A k \in {1, 2} : server[<<c, k>>].st = "idle"
  BY DEF IInv, CommandsOK, Idle
<1>7. TypeOK'
  BY <1>4, <1>5 DEF IInv, TypeOK
<1>8. CommandsOK'
  <2> SUFFICES ASSUME NEW b \in Cmds
               PROVE  /\ cmd'[b].st # "idle" => cmd'[b].q \in Asks(cmd'[b].op, cmd'[b].id, b)
                      /\ cmd'[b].st = "idle" =>
                            acted[b] = <<>> /\ \A k \in {1, 2} : server[<<b, k>>].st = "idle"
    BY <1>4 DEF CommandsOK
  <2>1. CASE b = c
    BY <1>2, <1>5, <2>1
  <2>2. CASE b # c
    BY <1>5, <2>2 DEF IInv, CommandsOK
  <2>. QED
    BY <2>1, <2>2
<1>9. CopiesOK'
  <2> SUFFICES ASSUME NEW j \in Copies, server[j].st \in Live PROVE CopyOK(j)'
    BY <1>4 DEF CopiesOK
  <2>1. PICK b \in Cmds, k \in {1, 2} : j = <<b, k>>
    BY DEF Copies
  <2>2. b # c /\ CopyOK(j)
    BY <1>6, <2>1 DEF IInv, CopiesOK, Live
  <2>. QED
    BY <1>4, <1>5, <2>1, <2>2 DEF CopyOK
<1>10. CreatesRace'
  BY <1>4 DEF IInv, CreatesRace, Registers
<1>11. OnceOK'
  BY <1>4 DEF IInv, OnceOK, Once, Kept, Works
<1>12. Outcomes'
  <2>1. \A b \in Cmds \ {c} : \A s : Outcome(b, s) => Outcome(b, s)'
    BY <1>4, <1>5 DEF Outcome, Claim, Refused, Works, Kept
  <2>2. cmd'[c].st \notin Statuses
    BY <1>2, <1>5 DEF Statuses, Errors
  <2> SUFFICES ASSUME NEW b \in Cmds
               PROVE  /\ cmd'[b].st \in Statuses => Outcome(b, cmd[b].st)'
                      /\ \A k \in {1, 2} : server'[<<b, k>>].st = "answer" =>
                            Outcome(b, server[<<b, k>>].status)'
    BY DEF Outcomes
  <2>3. CASE b = c
    BY <1>4, <1>6, <2>2, <2>3
  <2>4. CASE b # c
    <3>1. /\ cmd[b].st \in Statuses => Outcome(b, cmd[b].st)
          /\ \A k \in {1, 2} : server[<<b, k>>].st = "answer" =>
                Outcome(b, server[<<b, k>>].status)
      BY DEF IInv, Outcomes
    <3>. QED
      BY <1>4, <1>5, <2>4, <3>1 DEF Outcome, Claim, Refused, Works, Kept
  <2>. QED
    BY <2>3, <2>4
<1>13. ActedAsAsked'
  BY <1>4, <1>5, <1>6 DEF IInv, ActedAsAsked
<1>. QED
  BY <1>7, <1>8, <1>9, <1>10, <1>11, <1>12, <1>13 DEF IInv

(* A command is told what the server answered to it. *)
LEMMA ReceiveStep ==
    ASSUME IInv, NEW i \in Copies, Receive(i)
    PROVE  IInv'
<1>. PICK c \in Cmds, k \in {1, 2} : i = <<c, k>>
  BY DEF Copies
<1>. PICK s : s = server[i].status
  OBVIOUS
<1>1. /\ server[i].st = "answer" /\ cmd[c].st = "sent"
      /\ UNCHANGED <<store, accounts, used, expired, owners, shares>>
      /\ UNCHANGED <<duplicates, damages, restarts, acted, raced>>
  BY DEF Receive, nonces, faults, history
<1>2. server[i] \in Answers /\ s \in Statuses
  <2>1. server[i] \in {Idle, Over} \union Answers \union Reading \union Knowing
    BY DEF IInv, TypeOK
  <2>2. server[i] \in Answers
    BY <1>1, <2>1 DEF Idle, Over, Reading, Knowing
  <2>. QED
    BY <2>2 DEF Answers
<1>3. cmd[c] \in Commands
  BY <1>1 DEF IInv, TypeOK, Idle
<1> DEFINE x == [cmd[c] EXCEPT !.st = s]
<1>4. /\ x \in Commands /\ x.st = s /\ x.id = cmd[c].id /\ x.op = cmd[c].op
      /\ x.q = cmd[c].q
  BY <1>2, <1>3 DEF Commands
<1>5. cmd' = [cmd EXCEPT ![c] = x]
  BY DEF Receive
<1> HIDE DEF x
<1>6. /\ cmd'[c] = x /\ \A b \in Cmds \ {c} : cmd'[b] = cmd[b]
      /\ cmd' \in [Cmds -> {Idle} \union Commands]
      /\ \A b \in Cmds : /\ cmd'[b].id = cmd[b].id /\ cmd'[b].op = cmd[b].op
                         /\ cmd'[b].q = cmd[b].q
  BY <1>4, <1>5 DEF IInv, TypeOK
<1>7. /\ server'[i] = Over /\ \A j \in Copies \ {i} : server'[j] = server[j]
      /\ server' \in [Copies -> {Idle, Over} \union Answers \union Reading \union Knowing]
  BY DEF Receive, Over, IInv, TypeOK
<1>8. TypeOK'
  BY <1>1, <1>6, <1>7 DEF IInv, TypeOK
<1>9. CommandsOK'
  <2>1. s # "idle"
    BY <1>2 DEF Statuses, Errors
  <2>2. \A b \in Cmds : cmd'[b].st = "idle" => b # c /\ cmd[b].st = "idle"
    BY <1>4, <1>6, <2>1
  <2>3. \A b \in Cmds : cmd'[b].st # "idle" => cmd[b].st # "idle"
    BY <1>1, <1>6
  <2>4. \A b \in Cmds \ {c}, l \in {1, 2} : server'[<<b, l>>] = server[<<b, l>>]
    BY <1>7 DEF Copies
  <2>5. \A b \in Cmds : cmd'[b].st # "idle" => cmd'[b].q \in Asks(cmd'[b].op, cmd'[b].id, b)
    BY <1>6, <2>3 DEF IInv, CommandsOK
  <2>6. \A b \in Cmds : cmd'[b].st = "idle" =>
          acted'[b] = <<>> /\ \A l \in {1, 2} : server'[<<b, l>>].st = "idle"
    BY <1>1, <2>2, <2>4 DEF IInv, CommandsOK
  <2>. QED
    BY <2>5, <2>6 DEF CommandsOK
<1>10. \A j \in Copies : server'[j].st \in Live => j # i /\ server'[j] = server[j]
  BY <1>7 DEF Over, Live
<1>11. CopiesOK'
  <2> SUFFICES ASSUME NEW j \in Copies, server'[j].st \in Live PROVE CopyOK(j)'
    BY DEF CopiesOK
  <2>1. server'[j] = server[j] /\ CopyOK(j) /\ j[1] \in Cmds
    BY <1>10 DEF IInv, CopiesOK, Copies
  <2>. QED
    BY <1>1, <1>6, <2>1 DEF CopyOK
<1>12. CreatesRace'
  <2>1. \A j \in Copies : server'[j].st = "register" => server'[j] = server[j]
    BY <1>10 DEF Live
  <2>. QED
    BY <1>1, <2>1, RaceStays
<1>13. \A b \in Cmds, l \in {1, 2} : Works(b, l)' <=> Works(b, l)
  BY <1>1, <1>7, <1>10 DEF Works, Copies, Live, Over
<1>14. OnceOK'
  BY <1>1, <1>13 DEF IInv, OnceOK, Once, Kept
<1>15. \A b \in Cmds : Refused(b) => Refused(b)'
  BY <1>1, <1>6, <1>13 DEF Refused
<1>16. ASSUME NEW b \in Cmds, NEW t, Outcome(b, t) PROVE Outcome(b, t)'
  <2>1. Claim(b, t)'
    BY <1>1, <1>6, <1>16 DEF Outcome, Claim, Kept
  <2>2. Kept' <=> Kept
    BY <1>1 DEF Kept
  <2>. QED
    BY <1>1, <1>15, <1>16, <2>1, <2>2 DEF Outcome
<1>17. Outcomes'
  <2> SUFFICES ASSUME NEW b \in Cmds
               PROVE  /\ cmd'[b].st \in Statuses => Outcome(b, cmd[b].st)'
                      /\ \A l \in {1, 2} : server'[<<b, l>>].st = "answer" =>
                            Outcome(b, server[<<b, l>>].status)'
    BY DEF Outcomes
  <2>1. ASSUME cmd'[b].st \in Statuses PROVE Outcome(b, cmd[b].st)'
    <3>1. PICK t : t = cmd'[b].st
      OBVIOUS
    <3>2. Outcome(b, t)
      <4>1. CASE b = c
        BY <1>1, <1>4, <1>6, <3>1, <4>1 DEF IInv, Outcomes
      <4>2. CASE b # c
        BY <1>6, <2>1, <3>1, <4>2 DEF IInv, Outcomes
      <4>. QED
        BY <4>1, <4>2
    <3>3. Outcome(b, t)'
      BY <1>16, <3>2
    <3>. QED
      BY <3>1, <3>3 DEF Outcome, Claim
  <2>2. ASSUME NEW l \in {1, 2}, server'[<<b, l>>].st = "answer"
        PROVE  Outcome(b, server[<<b, l>>].status)'
    <3>1. server'[<<b, l>>] = server[<<b, l>>]
      BY <1>7, <2>2 DEF Over, Copies
    <3>2. PICK t : t = server[<<b, l>>].status
      OBVIOUS
    <3>3. Outcome(b, t)
      BY <2>2, <3>1, <3>2 DEF IInv, Outcomes
    <3>4. Outcome(b, t)'
      BY <1>16, <3>3
    <3>. QED
      BY <3>1, <3>2, <3>4 DEF Outcome, Claim
  <2>. QED
    BY <2>1, <2>2
<1>18. ActedAsAsked'
  BY <1>1, <1>6 DEF IInv, ActedAsAsked
<1>. QED
  BY <1>8, <1>9, <1>11, <1>12, <1>14, <1>17, <1>18 DEF IInv

(* A restart loses what is in flight, and either nothing else that the     *)
(* invariant speaks of or all that Kept is about.                          *)
LEMMA RestartStep ==
    ASSUME IInv, Restart
    PROVE  IInv'
<1>1. /\ \A j \in Copies : server'[j] \in {Idle, Over} /\ (server[j] = Idle => server'[j] = Idle)
      /\ server' \in [Copies -> {Idle, Over} \union Answers \union Reading \union Knowing]
  BY DEF Restart, Over
<1>2. /\ restarts' \in Nat /\ restarts' # 0
      /\ UNCHANGED <<store, expired, cmd, duplicates, damages, acted, raced>>
  BY DEF Restart, IInv, TypeOK, history
<1>3. Kept' => Kept /\ UNCHANGED <<accounts, used>>
  BY <1>2 DEF Restart, Kept
<1>4. /\ accounts' \in [Eds -> Mls \union {Nothing}] /\ used' \subseteq Cmds
      /\ owners' \in [Files -> Eds \union {Nothing}] /\ shares' \subseteq Shared
  BY DEF Restart, IInv, TypeOK
<1>5. TypeOK'
  BY <1>1, <1>2, <1>4 DEF IInv, TypeOK
<1>6. \A j \in Copies : server'[j].st \notin Live /\ server'[j].st # "answer"
  BY <1>1 DEF Idle, Over, Live
<1>7. \A c \in Cmds, k \in {1, 2} : <<c, k>> \in Copies
  BY DEF Copies
<1>8. CommandsOK'
  <2>1. \A c \in Cmds : cmd[c].st = "idle" => \A k \in {1, 2} : server'[<<c, k>>].st = "idle"
    <3> SUFFICES ASSUME NEW c \in Cmds, cmd[c].st = "idle", NEW k \in {1, 2}
                 PROVE  server'[<<c, k>>].st = "idle"
      OBVIOUS
    <3>1. server[<<c, k>>].st = "idle"
      BY DEF IInv, CommandsOK
    <3>2. server[<<c, k>>] \in {Idle, Over} \union Answers \union Reading \union Knowing
      BY <1>7 DEF IInv, TypeOK
    <3>3. server[<<c, k>>] = Idle
      BY <3>1, <3>2 DEF Over, Answers, Reading, Knowing
    <3>4. server'[<<c, k>>] = Idle
      BY <1>1, <1>7, <3>3
    <3>. QED
      BY <3>4 DEF Idle
  <2>. QED
    BY <1>2, <2>1 DEF IInv, CommandsOK
<1>9. CopiesOK'
  BY <1>6 DEF CopiesOK
<1>10. CreatesRace'
  BY <1>6 DEF CreatesRace, Registers, Live
<1>11. \A c \in Cmds, k \in {1, 2} : ~ Works(c, k)'
  BY <1>6, <1>7 DEF Works
<1>12. OnceOK'
  BY <1>2, <1>3, <1>11 DEF IInv, OnceOK, Once
<1>13. ASSUME NEW c \in Cmds, NEW s, Outcome(c, s) PROVE Outcome(c, s)'
  <2>1. Claim(c, s)'
    BY <1>2, <1>3, <1>13 DEF Outcome, Claim
  <2>2. Kept' /\ s \in Errors => Refused(c)'
    BY <1>2, <1>3, <1>11, <1>13 DEF Outcome, Refused
  <2>. QED
    BY <1>2, <1>13, <2>1, <2>2 DEF Outcome
<1>14. Outcomes'
  <2>1. ASSUME NEW c \in Cmds, cmd[c].st \in Statuses PROVE Outcome(c, cmd[c].st)'
    <3>1. PICK s : s = cmd[c].st
      OBVIOUS
    <3>2. Outcome(c, s)'
      BY <1>13, <2>1, <3>1 DEF IInv, Outcomes
    <3>. QED
      BY <1>2, <3>1, <3>2 DEF Outcome, Claim
  <2>. QED
    BY <1>2, <1>6, <1>7, <2>1 DEF Outcomes
<1>15. ActedAsAsked'
  BY <1>2 DEF IInv, ActedAsAsked
<1>. QED
  BY <1>5, <1>8, <1>9, <1>10, <1>12, <1>14, <1>15 DEF IInv

-----------------------------------------------------------------------------
(* A server nobody has sent anything to satisfies the invariant. *)
LEMMA InitIInv == Init => IInv
<1> SUFFICES ASSUME Init PROVE IInv
  OBVIOUS
<1>1. /\ \A j \in Copies : server[j] = Idle
      /\ \A c \in Cmds : cmd[c] = Idle /\ acted[c] = <<>>
      /\ \A c \in Cmds, k \in {1, 2} : <<c, k>> \in Copies
  BY DEF Init, Copies
<1>2. owners \in [Files -> Eds \union {Nothing}]
  <2>1. shares \subseteq Shares
    BY ClientServerAssumption DEF Init
  <2>2. ASSUME NEW x \in Files, \E s \in shares : s.file = x
        PROVE  (CHOOSE s \in shares : s.file = x).from \in Eds
    <3>1. (CHOOSE s \in shares : s.file = x) \in shares
      BY <2>2
    <3>. QED
      BY <2>1, <3>1 DEF Shares
  <2>. QED
    BY <2>2 DEF Init
<1>3. TypeOK
  <2>1. /\ store \in {"memory", "sqlite"} /\ accounts \in [Eds -> Mls \union {Nothing}]
        /\ used = {} /\ expired = {} /\ raced = {}
        /\ duplicates = 0 /\ damages = 0 /\ restarts = 0
    BY DEF Init
  <2>2. shares \subseteq Shared
    BY DEF Init
  <2>3. /\ server = [i \in Copies |-> Idle] /\ cmd = [c \in Cmds |-> Idle]
        /\ acted = [c \in Cmds |-> <<>>]
    BY DEF Init
  <2>. QED
    BY <1>2, <2>1, <2>2, <2>3 DEF TypeOK
<1>4. \A j \in Copies : server[j].st = "idle"
  BY <1>1 DEF Idle
<1>5. \A c \in Cmds : cmd[c].st = "idle"
  BY <1>1 DEF Idle
<1>6. Len(<<>>) = 0
  OBVIOUS
<1>7. CommandsOK
  BY <1>1, <1>4, <1>5 DEF CommandsOK
<1>8. CopiesOK /\ CreatesRace
  BY <1>4 DEF CopiesOK, CreatesRace, Registers, Live
<1>9. OnceOK
  <2>1. \A c \in Cmds, k \in {1, 2} : ~ Works(c, k)
    BY <1>1, <1>4 DEF Works, Live
  <2>2. \A c \in Cmds : acted[c] = <<>> /\ Len(acted[c]) <= 1
    BY <1>1, <1>6
  <2>. QED
    BY <2>1, <2>2 DEF OnceOK, Once
<1>10. Outcomes
  BY <1>1, <1>4, <1>5 DEF Outcomes, Statuses, Errors
<1>11. ActedAsAsked
  BY <1>1 DEF ActedAsAsked
<1>. QED
  BY <1>3, <1>7, <1>8, <1>9, <1>10, <1>11 DEF IInv

LEMMA NextIInv == IInv /\ [Next]_vars => IInv'
<1> SUFFICES ASSUME IInv, [Next]_vars PROVE IInv'
  OBVIOUS
<1>1. ASSUME NEW c \in Cmds,
             \/ AccountRegister(c) \/ FileUpload(c) \/ FileDelete(c)
             \/ ShareRevoke(c) \/ ShareDownload(c) \/ ShareList(c)
      PROVE  IInv'
  <2>1. PICK op \in Ops, id \in Ids : cmd[c] = Idle /\ \E q \in Asks(op, id, c) : Send(c, id, op, q)
    <3>1. CASE AccountRegister(c)
      BY <3>1 DEF AccountRegister, Ops, Asks
    <3>2. CASE FileUpload(c)
      BY <3>2 DEF FileUpload, Ops, Asks
    <3>3. CASE FileDelete(c)
      BY <3>3 DEF FileDelete, Ops, Asks
    <3>4. CASE ShareRevoke(c)
      BY <3>4 DEF ShareRevoke, Ops, Asks
    <3>5. CASE ShareDownload(c)
      BY <3>5 DEF ShareDownload, Ops, Asks
    <3>6. CASE ShareList(c)
      BY <3>6 DEF ShareList, Ops, Asks
    <3>. QED
      BY <1>1, <3>1, <3>2, <3>3, <3>4, <3>5, <3>6
  <2>. QED
    BY <2>1, SendStep
<1>2. ASSUME NEW i \in Copies,
             \/ Receive(i)
             \/ \E late \in BOOLEAN : Deliver(i, late)
             \/ CheckCreate(i) \/ Register(i)
             \/ LookUpAccount(i) \/ CheckOwner(i) \/ LookUpShare(i)
             \/ StoreUpload(i) \/ DeleteFile(i) \/ DeleteShare(i) \/ ListShares(i)
      PROVE  IInv'
  BY <1>2, ReceiveStep, DeliverStep, CheckCreateStep, RegisterStep, LookUpAccountStep,
     CheckOwnerStep, LookUpShareStep, StoreUploadStep, DeleteFileStep, DeleteShareStep,
     ListSharesStep
<1>3. CASE Restart
  BY <1>3, RestartStep
<1>4. CASE UNCHANGED vars
  <2>1. /\ UNCHANGED <<store, accounts, used, expired, owners, shares, server, cmd>>
        /\ UNCHANGED <<duplicates, damages, restarts, acted, raced>>
    BY <1>4 DEF vars, nonces, faults, history
  <2>. QED
    BY SMTT(30), <2>1 DEF IInv, TypeOK, CommandsOK, CopiesOK, CopyOK, CreatesRace, Registers, OnceOK,
                Once, Works, Kept, Outcomes, Outcome, Claim, Refused, ActedAsAsked
<1>. QED
  BY <1>1, <1>2, <1>3, <1>4 DEF Next

LEMMA Inductive == Spec => []IInv
BY InitIInv, NextIInv, PTL DEF Spec

-----------------------------------------------------------------------------
(* The state always has its type: what the server works on is a request a  *)
(* command sent, perhaps damaged, and its answers are those of the routes. *)
THEOREM TypeCorrect == Spec => []TypeOK
<1>1. IInv => TypeOK
  BY DEF IInv
<1>. QED
  BY <1>1, Inductive, PTL

(* One run of the CLI makes the server act at most once, however many      *)
(* copies of its request arrive, in whatever order with others.            *)
THEOREM ActedOnce == Spec => []AtMostOnce
<1>1. IInv => AtMostOnce
  BY DEF IInv, OnceOK, Once, AtMostOnce
<1>. QED
  BY <1>1, Inductive, PTL

(* The user is told "ok" only if the server acted, and one of the routes'  *)
(* errors only if it has not and never will.                               *)
THEOREM ToldTheTruth == Spec => []AnswersTrue
<1>1. IInv => AnswersTrue
  <2> SUFFICES ASSUME IInv, NEW c \in Cmds
               PROVE  /\ Ended(c, {"ok"}) => acted[c] # <<>>
                      /\ Kept /\ Ended(c, Errors) => acted[c] = <<>>
    BY DEF AnswersTrue, Errors, Ended
  <2>1. cmd[c].st \in Statuses => Outcome(c, cmd[c].st)
    BY DEF IInv, Outcomes
  <2>. QED
    BY <2>1 DEF Ended, Statuses, Outcome, Refused
<1>. QED
  BY <1>1, Inductive, PTL

(* Whatever arrives, the server does only what a command said, for both    *)
(* keys of its identity.                                                   *)
THEOREM OnlyAsAsked == Spec => []ActedAsAsked
<1>1. IInv => ActedAsAsked
  BY DEF IInv
<1>. QED
  BY <1>1, Inductive, PTL

(* The two sides sign the same bytes: a user who is told that the          *)
(* signature is wrong sent a file that was damaged on its way, or the      *)
(* account has another ML-DSA key.                                         *)
THEOREM HonestServed == Spec => []HonestAccepted
<1>1. IInv => HonestAccepted
  <2> SUFFICES ASSUME IInv, NEW c \in Cmds, Kept, cmd[c].st = "signature"
               PROVE  /\ cmd[c].op # "register"
                      /\ \/ cmd[c].op = "upload" /\ damages > 0
                         \/ accounts[cmd[c].id.ed] # cmd[c].id.ml
                         \/ cmd[c].id.ed \in raced
    BY DEF HonestAccepted, Ended
  <2>1. Claim(c, "signature")
    BY DEF IInv, Outcomes, Statuses, Errors, Outcome
  <2>. QED
    BY <2>1 DEF Claim
<1>. QED
  BY <1>1, Inductive, PTL

(* An account a user was told is registered keeps that user's keys, and    *)
(* one refused for a conflict leaves an account there, unless two creates  *)
(* were let past exists at once.                                           *)
THEOREM AccountsStay == Spec => []AccountStays
<1>1. IInv => AccountStays
  <2> SUFFICES ASSUME IInv, NEW c \in Cmds, Kept, cmd[c].op = "register"
               PROVE  /\ cmd[c].st = "ok" => \/ accounts[cmd[c].id.ed] = cmd[c].id.ml
                                             \/ cmd[c].id.ed \in raced
                      /\ cmd[c].st = "conflict" => accounts[cmd[c].id.ed] # Nothing
    BY DEF AccountStays, Ended
  <2>1. cmd[c].st \in {"ok", "conflict"} => Claim(c, cmd[c].st)
    BY DEF IInv, Outcomes, Statuses, Errors, Outcome
  <2>. QED
    BY <2>1 DEF Claim
<1>. QED
  BY <1>1, Inductive, PTL
===============================================================================
