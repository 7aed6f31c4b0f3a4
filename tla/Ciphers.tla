------------------------------ MODULE Ciphers ------------------------------
(***************************************************************************)
(* The registry of ciphers and the contexts made from them:                *)
(* liboul/cipher.c.  A context counts as a use of its cipher; a context of *)
(* HMAC owns a second one, of the hash it was told to use.  The users of   *)
(* the registry (proxy authentication, HTTP digests, NTLM) make a context, *)
(* use it and destroy it on every way out.                                 *)
(*                                                                         *)
(* Digests and Encryption say what the contexts compute.                   *)
(***************************************************************************)
EXTENDS Naturals, FiniteSets, SequencesExt

CONSTANTS
    Cipher,         \* addresses of OulCipher
    Context,        \* addresses of OulCipherContext
    Builtin,        \* names oul_ciphers_init registers, in order
    Hashes          \* the names among them that append and digest without help

ASSUME CiphersAssumption ==
    /\ Builtin \in Seq(STRING) /\ IsInjective(Builtin)
    /\ Hashes \subseteq ToSet(Builtin) \ {"hmac"}
    /\ IsFiniteSet(Cipher) /\ IsFiniteSet(Context)
    /\ "none" \notin Cipher \cup Context

VARIABLES
    ciphers,        \* the registered ciphers; no two have a name, so their order says nothing
    cipher_mem,     \* Cipher -> [name, ref], or Freed
    contexts,       \* Context -> [cipher, hash], or Freed
    held,           \* the contexts users have
    answer          \* what the last computation returned

cipherVars == <<ciphers, cipher_mem, contexts, held, answer>>

Freed == [name |-> "freed", ref |-> 0]
NoContext == [cipher |-> "none", hash |-> "none"]
NoHash == "none"

Registry == [list |-> ciphers, mem |-> cipher_mem, ctx |-> contexts]
RegistryBecomes(m) == ciphers' = m.list /\ cipher_mem' = m.mem /\ contexts' = m.ctx

FreeCiphers(m) == {c \in Cipher : m.mem[c] = Freed}
FreeContexts(m) == {x \in Context : m.ctx[x] = NoContext}

\* oul_ciphers_find_cipher
Find(m, name) == {c \in m.list : m.mem[c].name = name}
NameOf(m, x) == m.mem[m.ctx[x].cipher].name

\* oul_ciphers_register_cipher: no name twice.
RegisterCipher(m, name) ==
    IF Find(m, name) # {} THEN m
    ELSE LET c == CHOOSE c \in FreeCiphers(m) : TRUE
         IN [m EXCEPT !.list = @ \cup {c}, !.mem[c] = [name |-> name, ref |-> 0]]

\* oul_ciphers_init: the ciphers of the library, one after the other.
RegisterAll(m) ==
    LET registered[i \in 0..Len(Builtin)] ==
            IF i = 0 THEN m ELSE RegisterCipher(registered[i - 1], Builtin[i])
    IN registered[Len(Builtin)]

\* Mutant: a cipher in use may go.
UnregisterCipher_InUse(m, c) == [m EXCEPT !.list = @ \ {c}, !.mem[c] = Freed]

\* oul_ciphers_unregister_cipher
UnregisterCipher(m, c) ==
    IF m.mem[c].ref # 0 THEN m
    ELSE [m EXCEPT !.list = @ \ {c}, !.mem[c] = Freed]

\* oul_ciphers_uninit: what is still in use leaves the list and stays in memory.
UnregisterAll(m) ==
    [m EXCEPT !.list = {},
              !.mem = [c \in Cipher |-> IF c \in m.list THEN UnregisterCipher(m, c).mem[c] ELSE @[c]]]

\* oul_cipher_context_new on the context at address x.
ContextNew(m, c, x) ==
    [m EXCEPT !.mem[c].ref = @ + 1, !.ctx[x] = [cipher |-> c, hash |-> NoHash]]

\* The context of a plain hash is destroyed.
Dropped(m, x) == [m EXCEPT !.mem[m.ctx[x].cipher].ref = @ - 1, !.ctx[x] = NoContext]

\* oul_cipher_context_reset: for HMAC, hmac_reset lets go of its hash.
ContextReset(m, x) ==
    IF m.ctx[x].hash = NoHash THEN m
    ELSE [Dropped(m, m.ctx[x].hash) EXCEPT !.ctx[x].hash = NoHash]

\* oul_cipher_context_destroy: hmac_uninit resets first.
ContextDestroy(m, x) == Dropped(ContextReset(m, x), x)

\* hmac_set_opt with "hash": the one before is destroyed; an unknown name leaves none.
SetHash(m, x, name) ==
    LET without == ContextReset(m, x)
        c == Find(m, name)
        h == CHOOSE h \in FreeContexts(without) : TRUE
    IN IF c = {} THEN without
       ELSE [ContextNew(without, CHOOSE d \in c : TRUE, h) EXCEPT !.ctx[x].hash = h]

-----------------------------------------------------------------------------
(* Computations that make a context, use it and destroy it.                *)

\* One context of the cipher from its making to its end; there is room for it.
Used(m, c) == LET x == CHOOSE x \in FreeContexts(m) : TRUE
              IN ContextDestroy(ContextNew(m, c, x), x)
\* The same with a second one inside.
UsedTwice(m, c) ==
    LET x == CHOOSE x \in FreeContexts(m) : TRUE
    IN ContextDestroy(Used(ContextNew(m, c, x), c), x)

Returns(m, a) == [registry |-> m, answer |-> a]

\* oul_cipher_digest_region: a cipher that cannot append and digest gives nothing,
\* nor does HMAC without a hash.
DigestRegion(m, name) ==
    IF Find(m, name) = {} \/ name \notin Hashes \cup {"hmac"} THEN Returns(m, "none")
    ELSE Returns(Used(m, CHOOSE c \in Find(m, name) : TRUE),
                 IF name = "hmac" THEN "none" ELSE "digest")

\* oul_cipher_http_digest_calculate_session_key
SessionKey(m, sess, client_nonce) ==
    IF Find(m, "md5") = {} THEN Returns(m, "none")
    ELSE LET c == CHOOSE c \in Find(m, "md5") : TRUE
             first == Used(m, c)
         IN CASE ~sess -> Returns(first, "key")
              [] sess /\ ~client_nonce -> Returns(first, "none")
              [] OTHER -> Returns(Used(first, c), "key")

\* oul_cipher_http_digest_calculate_response: the entity is hashed by a second
\* context while the first is in use.
HttpResponse(m, qop, entity, count, client_nonce) ==
    IF Find(m, "md5") = {} THEN Returns(m, "none")
    ELSE LET c == CHOOSE c \in Find(m, "md5") : TRUE
             first == IF qop = "auth-int" /\ entity THEN UsedTwice(m, c) ELSE Used(m, c)
         IN CASE qop = "auth-int" /\ ~entity -> Returns(first, "none")
              [] qop # "" /\ ~(count /\ client_nonce) -> Returns(Used(first, c), "none")
              [] OTHER -> Returns(Used(first, c), "response")

Computes(r) == /\ RegistryBecomes(r.registry) /\ answer' = r.answer
               /\ UNCHANGED held

-----------------------------------------------------------------------------
Running == ciphers # {}

InitCiphers ==
    /\ ~Running /\ Cardinality(FreeCiphers(Registry)) >= Len(Builtin)
    /\ RegistryBecomes(RegisterAll(Registry))
    /\ UNCHANGED <<held, answer>>

UninitCiphers ==
    /\ Running
    /\ RegistryBecomes(UnregisterAll(Registry))
    /\ UNCHANGED <<held, answer>>

RegisterByUser(name) == /\ FreeCiphers(Registry) # {}
                        /\ RegistryBecomes(RegisterCipher(Registry, name))
                        /\ UNCHANGED <<held, answer>>

UnregisterByUser(c) == /\ c \in ciphers /\ RegistryBecomes(UnregisterCipher(Registry, c))
                       /\ UNCHANGED <<held, answer>>

\* oul_cipher_context_new_by_name
NewContextByName(name) ==
    /\ Find(Registry, name) # {} /\ FreeContexts(Registry) # {}
    /\ LET c == CHOOSE c \in Find(Registry, name) : TRUE
           x == CHOOSE x \in FreeContexts(Registry) : TRUE
       IN RegistryBecomes(ContextNew(Registry, c, x)) /\ held' = held \cup {x}
    /\ UNCHANGED answer

\* oul_cipher_context_set_option, which only HMAC supports.
SetOption(x, name) ==
    /\ x \in held /\ NameOf(Registry, x) = "hmac"
    /\ contexts[x].hash = NoHash => FreeContexts(Registry) # {}
    /\ RegistryBecomes(SetHash(Registry, x, name))
    /\ UNCHANGED <<held, answer>>

ResetHeld(x) == /\ x \in held /\ RegistryBecomes(ContextReset(Registry, x))
                /\ UNCHANGED <<held, answer>>

DestroyHeld(x) == /\ x \in held /\ RegistryBecomes(ContextDestroy(Registry, x))
                  /\ held' = held \ {x} /\ UNCHANGED answer

\* oul_cipher_context_append and oul_cipher_context_digest: nothing for a cipher
\* that does not support them and for HMAC without a hash.
DigestHeld(x) ==
    /\ x \in held
    /\ answer' = IF NameOf(Registry, x) \in Hashes \/ contexts[x].hash # NoHash
                 THEN "digest" ELSE "none"
    /\ UNCHANGED <<ciphers, cipher_mem, contexts, held>>

Compute ==
    /\ Cardinality(FreeContexts(Registry)) >= 2
    /\ \/ \E name \in ToSet(Builtin) : Computes(DigestRegion(Registry, name))
       \/ \E sess, nonce \in BOOLEAN : Computes(SessionKey(Registry, sess, nonce))
       \/ \E qop \in {"", "auth", "auth-int"}, entity, count, nonce \in BOOLEAN :
            Computes(HttpResponse(Registry, qop, entity, count, nonce))

CiphersInit ==
    /\ ciphers = {} /\ cipher_mem = [c \in Cipher |-> Freed]
    /\ contexts = [x \in Context |-> NoContext]
    /\ held = {} /\ answer = "none"

CiphersNext ==
    \/ InitCiphers \/ UninitCiphers \/ Compute
    \/ \E c \in Cipher : UnregisterByUser(c)
    \/ \E name \in ToSet(Builtin) : RegisterByUser(name) \/ NewContextByName(name)
    \/ \E x \in Context : \/ ResetHeld(x) \/ DestroyHeld(x) \/ DigestHeld(x)
                          \/ \E name \in Hashes : SetOption(x, name)

CiphersSpec == CiphersInit /\ [][CiphersNext]_cipherVars

-----------------------------------------------------------------------------
(* A cipher is in memory as long as a context uses it, whatever was          *)
(* unregistered and however the subsystem was stopped and started between     *)
(* (cipher.c:2164), its count is that of its contexts, and no context is left  *)
(* when the computation that made it has returned, on any of its ways out      *)
(* (cipher.c:2671, 2733, 2767).                                               *)
InUseIsAlive ==
    /\ \A x \in Context : contexts[x] # NoContext => cipher_mem[contexts[x].cipher] # Freed
    /\ \A c \in Cipher : cipher_mem[c].ref = Cardinality({x \in Context : contexts[x].cipher = c})
    /\ \A c, d \in ciphers : c # d => cipher_mem[c].name # cipher_mem[d].name
    /\ {x \in Context : contexts[x] # NoContext}
            = held \cup ({contexts[x].hash : x \in held} \ {NoHash})
=============================================================================
