------------------------------ MODULE Control -------------------------------
(***************************************************************************)
(* Who a miner is: the control plane (control/server.ts, challenges.ts,    *)
(* sessions.ts), the registry it reads (packages/db/src/registry.ts,       *)
(* cli/enroll.ts), the login resolver (login.ts) and the worker rows a     *)
(* stratum session is credited to (index.ts).  HTTP requests arrive late   *)
(* or twice; each handler is one turn of the event loop; the operator's    *)
(* commands are processes of their own and share only the database.        *)
(* Workers, wallets and miners are external.                               *)
(***************************************************************************)
EXTENDS Integers, Sequences, SequencesExt, FiniteSetsExt

CONSTANTS
  Account,         \* account ids, as the sequence of their dot-separated parts
  Name,            \* rig names, likewise
  Key, Wallet,     \* public keys of rigs; Solana addresses
  Conn,            \* miner connections
  AllowLegacy,     \* allowLegacyLogin
  ChallengeTtl, MaxOutstanding,   \* the two stores' options
  TokenTtl, MaxSessions,
  MaxAge,          \* ATTESTATION_MAX_AGE_SECONDS
  Drift,           \* how far the clocks of workers are off
  MaxNonces,       \* bound: challenges issued
  MaxCommands,     \* bound: enroll commands at the same time
  MaxBoots,        \* bound: starts of the orchestrator
  MaxTime,         \* bound: the clock
  None

\* What stands between the dots of a login.
Part == {"default"} \cup UNION {Range(p) : p \in Account \cup Name}

ASSUME ControlAssumption ==
  /\ AllowLegacy \in BOOLEAN
  /\ {ChallengeTtl, MaxOutstanding, TokenTtl, MaxSessions} \subseteq Nat \ {0}
  /\ {MaxAge, MaxNonces, MaxCommands, MaxBoots, MaxTime} \subseteq Nat
  /\ Drift \subseteq Int
  /\ Account \cup Name \subseteq Seq(Part) \ {<<>>}

VARIABLES
  challenges,  \* the challenge store: entries in the order of its Map
  tokens,      \* the session store, likewise; grant n minted token n
  keys,        \* worker_keys: keys[k] is the row of the rig, or None
  wallets,     \* accounts: absent, without a wallet (None), or its address
  enrolling,   \* enroll commands that have looked and not yet written
  cache,       \* workerIds of index.ts: from logins to worker rows
  conns,       \* conns[c]: the identity a stratum session authorized as
  asked,       \* asked[n]: whom challenge n was issued to, and when
  grants,      \* what was granted for a message, in order
  boots, now

db == <<keys, wallets, enrolling>>
vars == <<challenges, tokens, keys, wallets, enrolling, cache, conns, asked,
          grants, boots, now>>

\* A worker row: UNIQUE (username, worker_name).
Row(username, name) == [username |-> username, name |-> name]
Rows == [username: Seq(Part), name: Seq(Part)]

\* identity.login: the two halves joined by a dot.
Login(id) == id.username \o id.name

Message == [kind: {"attest", "bind"}, nonce: 1..MaxNonces, who: Key \cup Wallet,
            account: Account, at: Int, valid: BOOLEAN]

TypeOK ==
  /\ \A i \in DOMAIN challenges : challenges[i].nonce \in DOMAIN asked
  /\ Len(challenges) <= MaxOutstanding
  /\ \A i \in DOMAIN tokens : tokens[i].id \in DOMAIN grants
  /\ Len(tokens) <= MaxSessions
  /\ \A k \in Key : keys[k] \in Rows \cup {None}
  /\ wallets \in [Account -> Wallet \cup {None, "absent"}]
  /\ enrolling \subseteq [key: Key, account: Account, name: Name]
  /\ \A l \in DOMAIN cache : cache[l] \in Rows
  /\ \A c \in Conn : conns[c] # None => conns[c].id \in Rows
  /\ \A n \in DOMAIN grants : grants[n].msg \in Message

Init ==
  /\ challenges = <<>> /\ tokens = <<>>
  /\ keys = [k \in Key |-> None]
  /\ wallets = [a \in Account |-> "absent"]
  /\ enrolling = {}
  /\ cache = << >>
  /\ conns = [c \in Conn |-> None]
  /\ asked = <<>> /\ grants = <<>>
  /\ boots = 1 /\ now = 0

-----------------------------------------------------------------------------
(* The two stores: Maps in insertion order, each entry with its expiry.    *)

Alive(e) == e.exp > now

\* expire(): from the front, up to the first entry still alive.
Expire(store) == LET alive == {i \in DOMAIN store : Alive(store[i])} IN
                 IF alive = {} THEN <<>> ELSE SubSeq(store, Min(alive), Len(store))

\* The loop that drops the oldest entries until one more fits.
Evict(store, max) == SubSeq(store, 1 + Max({0, Len(store) - max + 1}), Len(store))

Issued(store, max, entry) == Append(Evict(Expire(store), max), entry)

-----------------------------------------------------------------------------
(* control/server.ts                                                       *)

\* handleChallenge(): to anyone who asks.
Challenge(who) ==
  LET n == Len(asked) + 1 IN
  /\ n <= MaxNonces
  /\ challenges' = Issued(challenges, MaxOutstanding,
                          [nonce |-> n, who |-> who, exp |-> now + ChallengeTtl])
  /\ asked' = Append(asked, [who |-> who, at |-> now])
  /\ UNCHANGED <<tokens, db, cache, conns, grants, boots, now>>

\* consume(): spent on sight.  Mutant: it is left in the Map.
NotSpent(m) == challenges
Spent(m) == LET at == {i \in DOMAIN challenges : challenges[i].nonce = m.nonce} IN
            IF at = {} THEN challenges ELSE RemoveAt(challenges, CHOOSE i \in at : TRUE)

\* A challenge is good for whom it was issued to.
Consumable(m) == \E i \in DOMAIN challenges :
  challenges[i].nonce = m.nonce /\ Alive(challenges[i]) /\ challenges[i].who = m.who

InTime(m) == now - m.at \in (0 - MaxAge)..MaxAge

Grant(m) == Append(grants, [msg |-> m, at |-> now, used |-> now])

EnrolledAsClaimed(m) == keys[m.who] # None /\ keys[m.who].username = m.account

\* handleAttest()
Attest(m) ==
  /\ challenges' = Spent(m)
  /\ IF Consumable(m) /\ InTime(m) /\ m.valid /\ EnrolledAsClaimed(m)
     THEN /\ grants' = Grant(m)
          /\ tokens' = Issued(tokens, MaxSessions,
                         [id |-> Len(grants) + 1, row |-> keys[m.who],
                          exp |-> now + TokenTtl])
     ELSE UNCHANGED <<grants, tokens>>
  /\ UNCHANGED <<db, cache, conns, asked, boots, now>>

\* handleBindWallet() and bindSolanaAddress()
BindWallet(m) ==
  /\ challenges' = Spent(m)
  /\ IF Consumable(m) /\ InTime(m) /\ m.valid /\ wallets[m.account] # "absent"
     THEN /\ grants' = Grant(m)
          /\ wallets' = [wallets EXCEPT ![m.account] = m.who]
     ELSE UNCHANGED <<grants, wallets>>
  /\ UNCHANGED <<tokens, keys, enrolling, cache, conns, asked, boots, now>>

-----------------------------------------------------------------------------
(* cli/enroll.ts and registry.ts                                           *)

CreateAccount(a) ==
  /\ wallets[a] = "absent"
  /\ wallets' = [wallets EXCEPT ![a] = None]
  /\ UNCHANGED <<challenges, tokens, keys, enrolling, cache, conns, asked,
                 grants, boots, now>>

\* runEnroll(), as far as registerWorkerKey()'s SELECT: the account is there
\* and the key is new.
EnrollLook(k, a, name) ==
  /\ Cardinality(enrolling) < MaxCommands
  /\ wallets[a] # "absent" /\ keys[k] = None
  /\ enrolling' = enrolling \cup {[key |-> k, account |-> a, name |-> name]}
  /\ UNCHANGED <<challenges, tokens, keys, wallets, cache, conns, asked,
                 grants, boots, now>>

\* Mutant: the row is replaced when another command was faster.
Replaceable(k) == TRUE

\* PRIMARY KEY (public_key)
Insertable(k) == keys[k] = None

EnrollInsert(e) ==
  /\ keys' = IF Insertable(e.key) THEN [keys EXCEPT ![e.key] = Row(e.account, e.name)]
             ELSE keys
  /\ enrolling' = enrolling \ {e}
  /\ UNCHANGED <<challenges, tokens, wallets, cache, conns, asked, grants,
                 boots, now>>

-----------------------------------------------------------------------------
(* login.ts, and what session.ts and index.ts make of an authorize.        *)

HasEnrolledKeys(username) == \E k \in Key : keys[k] # None /\ keys[k].username = username

\* parseWorkerLogin(): up to the first dot, and the rest or the default name.
Parsed(login) == Row(<<Head(login)>>, IF Len(login) = 1 THEN <<"default">> ELSE Tail(login))

\* workerIdFor(): one lookup per login, remembered under its text.  Mutant:
\* under the name of the rig.
RowForRig(id) == LET same == {l \in DOMAIN cache : Tail(l) = id.name} IN
  IF same = {} THEN id ELSE cache[CHOOSE l \in same : TRUE]
RowFor(id) == IF Login(id) \in DOMAIN cache THEN cache[Login(id)] ELSE id

Remembered(id) ==
  [l \in DOMAIN cache \cup {Login(id)} |-> IF l \in DOMAIN cache THEN cache[l] ELSE id]

\* handleAuthorize() with a resolved identity: a second worker on the socket
\* ends the session; the same one again changes nothing.
Authorized(c, id, via) ==
  IF conns[c] = None
  THEN /\ conns' = [conns EXCEPT ![c] = [id |-> id, via |-> via]]
       /\ cache' = Remembered(id)
  ELSE /\ conns' = IF Login(conns[c].id) = Login(id) THEN conns
                   ELSE [conns EXCEPT ![c] = None]
       /\ UNCHANGED cache

\* Mutant: renewed where it stands in the Map, which is what set() does without
\* delete(): the store is no longer in the order of expiry.
SlidInPlace(i) == [tokens EXCEPT ![i].exp = now + TokenTtl]

\* resolve(): deleted and set again, with a new expiry, at the end of the Map.
Slid(i) == Append(RemoveAt(tokens, i), [tokens[i] EXCEPT !.exp = now + TokenTtl])

\* A miner logs in with a token it was given, which is at i in the Map; unknown
\* tokens are refused.
AuthorizeToken(c, i) ==
  /\ \/ /\ Alive(tokens[i])
        /\ tokens' = Slid(i)
        /\ grants' = [grants EXCEPT ![tokens[i].id].used = now]
        /\ Authorized(c, tokens[i].row, tokens[i].id)
     \/ /\ ~Alive(tokens[i])
        /\ tokens' = RemoveAt(tokens, i)
        /\ UNCHANGED <<grants, conns, cache>>
  /\ UNCHANGED <<challenges, db, asked, boots, now>>

\* A miner logs in with a plain name.
AuthorizeName(c, login) ==
  /\ AllowLegacy /\ ~HasEnrolledKeys(Parsed(login).username)
  /\ Authorized(c, Parsed(login), 0)
  /\ UNCHANGED <<challenges, tokens, db, asked, grants, boots, now>>

Disconnect(c) ==
  /\ conns[c] # None
  /\ conns' = [conns EXCEPT ![c] = None]
  /\ UNCHANGED <<challenges, tokens, db, cache, asked, grants, boots, now>>

\* The orchestrator dies and is started again: only the database is left.
Restart ==
  /\ boots < MaxBoots
  /\ boots' = boots + 1
  /\ challenges' = <<>> /\ tokens' = <<>> /\ cache' = << >>
  /\ conns' = [c \in Conn |-> None]
  /\ UNCHANGED <<db, asked, grants, now>>

-----------------------------------------------------------------------------
(* External: workers and wallets, and the clock.                           *)

\* Whoever asked for challenge n, or was told its nonce, may have signed it at
\* any time since, by a clock of its own; whatever was signed may arrive now,
\* for the first time or again.  One forgery stands for all of a signer.
Signed(kind, signers, n) ==
  LET Text(who, a, at, valid) == [kind |-> kind, nonce |-> n, who |-> who,
                                  account |-> a, at |-> at, valid |-> valid]
  IN {Text(who, a, t + drift, TRUE) :
        who \in signers, a \in Account, t \in asked[n].at..now, drift \in Drift}
     \cup {Text(who, CHOOSE a \in Account : TRUE, now, FALSE) : who \in signers}

Tick == /\ now < MaxTime
        /\ now' = now + 1
        /\ UNCHANGED <<challenges, tokens, db, cache, conns, asked, grants,
                       boots>>

Logins == {a \o n : a \in Account, n \in Name} \cup Account

Next ==
  \/ \E who \in Key \cup Wallet : Challenge(who)
  \/ \E n \in DOMAIN asked :
       \/ \E m \in Signed("attest", Key, n) : Attest(m)
       \/ \E m \in Signed("bind", Wallet, n) : BindWallet(m)
  \/ \E a \in Account : CreateAccount(a) \/ \E k \in Key, name \in Name : EnrollLook(k, a, name)
  \/ \E e \in enrolling : EnrollInsert(e)
  \/ \E c \in Conn :
       \/ \E i \in DOMAIN tokens : AuthorizeToken(c, i)
       \/ \E login \in Logins : AuthorizeName(c, login)
       \/ Disconnect(c)
  \/ Restart \/ Tick

Spec == Init /\ [][Next]_vars

-----------------------------------------------------------------------------
(* What must hold.                                                         *)

\* However often and however late a signed message arrives, and whatever was
\* restarted meanwhile, a challenge is good for one grant (challenges.ts:73-76).
NonceSpentOnce ==
  \A i, j \in DOMAIN grants : grants[i].msg.nonce = grants[j].msg.nonce => i = j

\* Every grant rests on a challenge issued to the same key or wallet less than
\* its ttl before, on a signature over it and, for a rig, on an enrolment of
\* that key under that account; a token, and a connection that logged in with
\* it, stands for the rig that key is enrolled as, whichever enrol commands ran
\* meanwhile (control/server.ts:148-178, 003_accounts_and_keys.sql:18-24).
GrantIsProven ==
  /\ \A i \in DOMAIN grants :
       LET m == grants[i].msg  q == asked[m.nonce] IN
       /\ m.valid /\ q.who = m.who
       /\ grants[i].at - q.at \in 0..(ChallengeTtl - 1)
       /\ m.kind = "attest" => keys[m.who] # None /\ keys[m.who].username = m.account
  /\ \A i \in DOMAIN tokens : tokens[i].row = keys[grants[tokens[i].id].msg.who]
  /\ \A c \in Conn : conns[c] # None /\ conns[c].via # 0 =>
       conns[c].id = keys[grants[conns[c].via].msg.who]

Held == {tokens[i].id : i \in DOMAIN tokens}

\* A token is lost only by silence for its whole ttl, by a restart, or, when the
\* store is full, by being the one unused for longest; and none is good for a
\* login after that silence (sessions.ts:46-57, 79-83).
TokenLeavesForCause ==
  [][\A n \in Held :
       /\ n \notin Held' =>
            \/ now - grants[n].used >= TokenTtl
            \/ boots' # boots
            \/ /\ Cardinality(Held) = MaxSessions /\ Len(grants') > Len(grants)
               /\ \A o \in Held : grants[n].used <= grants[o].used
       /\ grants'[n].used # grants[n].used => now - grants[n].used < TokenTtl]_vars

\* The shares of a connected worker land on that worker's row and no other,
\* whatever connected before it (001_initial.sql:1-4, index.ts:37-50, 88-99).
CreditedToOwnRow == \A c \in Conn : conns[c] # None => RowFor(conns[c].id) = conns[c].id

\* Claimed at registry.ts:63-65: a wallet is not overwritten.
WalletNotOverwritten ==
  [][\A a \in Account : wallets[a] \in Wallet => wallets'[a] = wallets[a]]_vars

\* Claimed at ARCHITECTURE.md:50-52: a token already bound to another live
\* session is refused.
OneSessionPerToken ==
  \A c, d \in Conn :
    /\ c # d /\ conns[c] # None /\ conns[d] # None
    => conns[c].via = 0 \/ conns[c].via # conns[d].via

\* Claimed at sessions.ts:79-83: a rig that keeps mining keeps its token; only
\* silence for the full ttl ends it.  A rig stays connected while it mines.
MiningKeepsToken ==
  \A c \in Conn :
    conns[c] # None /\ conns[c].via # 0
    => \E i \in DOMAIN tokens : tokens[i].id = conns[c].via /\ Alive(tokens[i])
=============================================================================
