------------------------------- MODULE UserMemory -------------------------------
(***************************************************************************)
(* What a chat may remember of one user                                    *)
(* (server/services/user-memory-service.ts): consent decisions are         *)
(* appended to a history, memories are saved, deleted and expire, and a    *)
(* prompt shows those that the newest decision allows.  Saves and prompts  *)
(* read the consent first and the memories later; a decision and the       *)
(* deletions of a revocation are one transaction.                          *)
(*                                                                         *)
(* There is one key per Bot and category.  Screening of secrets and the    *)
(* check against the organization are a nondeterministic verdict.          *)
(***************************************************************************)
EXTENDS Naturals, Sequences, FiniteSets, SequencesExt

CONSTANTS Bots,          \* Bots the user may use
          Global,        \* botId NULL: consent and memories of no Bot
          Categories,    \* PREFERENCE, DEPARTMENT, PROJECT
          Decisions,     \* the grants and revocations the user makes
          Savers,        \* save requests at once
          MaxConsents,   \* bound: consent decisions
          NoMemory,      \* no UserMemory row
          NoConsent      \* no MemoryConsent row

ASSUME MemoryAssumption ==
  /\ Global \notin Bots
  /\ Decisions \subseteq [bot: Bots \cup {Global}, status: {"GRANTED", "REVOKED"},
                          categories: SUBSET Categories]
  /\ NoConsent \notin Decisions
  /\ MaxConsents \in Nat

Scopes == Bots \cup {Global}

VARIABLES
  consents,  \* the MemoryConsent rows, oldest first
  memory,    \* memory[b][c]: the UserMemory row of a Bot or of none, in a category
  saving,    \* saving[s]: what save request s has read
  prompt     \* the prompt that is being built: its Bot and the consent it has read

memoryVars == <<consents, memory, saving, prompt>>

\* A memory is known by its Bot and its category.
Identities == Scopes \X Categories

\* late: a decision was taken between the check of the consent and the insertion
Memories == [expired: BOOLEAN, late: BOOLEAN]
NoSave == [phase |-> "Idle", identity |-> <<Global, NoMemory>>, found |-> NoMemory, at |-> 0]
NoPrompt == [bot |-> Global, consent |-> NoConsent, at |-> 0]

MemoryTypeOK ==
  /\ consents \in Seq(Decisions) /\ Len(consents) <= MaxConsents
  /\ memory \in [Scopes -> [Categories -> Memories \cup {NoMemory}]]
  /\ \A s \in Savers :
       /\ saving[s].phase \in {"Idle", "Find", "Write"}
       /\ saving[s].phase # "Idle" => saving[s].identity \in Identities
       /\ saving[s].found \in Identities \cup {NoMemory}
       /\ saving[s].at \in 0..MaxConsents
  /\ prompt.consent \in Decisions \cup {NoConsent} /\ prompt.bot \in Scopes

MemoryInit ==
  /\ consents = << >>
  /\ memory = [b \in Scopes |-> [c \in Categories |-> NoMemory]]
  /\ saving = [s \in Savers |-> NoSave]
  /\ prompt = NoPrompt

-----------------------------------------------------------------------------
\* The decision at index i, which is 0 when there is none.
DecisionAt(i) == IF i = 0 THEN NoConsent ELSE consents[i]
\* The newest decision for the Bot or for none.
latestConsent(b) == DecisionAt(SelectLastInSeq(consents, LAMBDA d : d.bot \in {b, Global}))

Covers(consent, c) ==
  consent # NoConsent /\ consent.status = "GRANTED" /\ c \in consent.categories

checkConsent(s, b, c) ==
  /\ saving[s].phase = "Idle"
  /\ Covers(latestConsent(b), c)
  /\ saving' = [saving EXCEPT ![s] = [NoSave EXCEPT !.phase = "Find", !.identity = <<b, c>>,
                                                    !.at = Len(consents)]]
  /\ UNCHANGED <<consents, memory, prompt>>

Stored(i) == memory[i[1]][i[2]] # NoMemory

\* Looked up by what identifies it, or by an id, which may name a memory of another Bot or
\* category.
findExisting(s) ==
  /\ saving[s].phase = "Find"
  /\ \E found \in {i \in Identities : Stored(i)}
               \cup (IF Stored(saving[s].identity) THEN {} ELSE {NoMemory}) :
       saving' = [saving EXCEPT ![s].phase = "Write", ![s].found = found]
  /\ UNCHANGED <<consents, memory, prompt>>

\* update by id, or create: the statement fails when what was found has been deleted, or when
\* another memory has the identity (UserMemory_identity_key).
CanBeWritten(s) ==
  /\ saving[s].found # NoMemory => Stored(saving[s].found)
  /\ saving[s].found # saving[s].identity => ~Stored(saving[s].identity)

Saved(s, i) ==
  IF i = saving[s].identity THEN [expired |-> FALSE, late |-> saving[s].at # Len(consents)]
  ELSE IF i = saving[s].found THEN NoMemory
  ELSE memory[i[1]][i[2]]

save(s) ==
  /\ saving[s].phase = "Write"
  /\ CanBeWritten(s)
  /\ memory' = [b \in Scopes |-> [c \in Categories |-> Saved(s, <<b, c>>)]]
  /\ saving' = [saving EXCEPT ![s] = NoSave]
  /\ UNCHANGED <<consents, prompt>>

saveFails(s) ==
  /\ saving[s].phase # "Idle"
  /\ saving' = [saving EXCEPT ![s] = NoSave]
  /\ UNCHANGED <<consents, memory, prompt>>

\* Mutant: a decision for no Bot leaves the memories of the Bots.
RevokedScopesExact(b) == {b}
RevokedScopes(b) == IF b = Global THEN Scopes ELSE {b}

changeMemoryConsent(decision) ==
  /\ Len(consents) < MaxConsents
  /\ consents' = Append(consents, decision)
  /\ memory' = IF decision.status = "GRANTED" THEN memory
               ELSE [b \in Scopes |-> [c \in Categories |->
                      IF b \in RevokedScopes(decision.bot) /\ c \in decision.categories
                      THEN NoMemory ELSE memory[b][c]]]
  /\ UNCHANGED <<saving, prompt>>

Without(Gone(_, _)) ==
  [b \in Scopes |-> [c \in Categories |-> IF Gone(b, c) THEN NoMemory ELSE memory[b][c]]]

deleteUserMemory(b, c) ==
  /\ memory[b][c] # NoMemory
  /\ memory' = Without(LAMBDA x, y : x = b /\ y = c)
  /\ UNCHANGED <<consents, saving, prompt>>

deleteAllUserMemories ==
  /\ memory' = Without(LAMBDA x, y : TRUE)
  /\ UNCHANGED <<consents, saving, prompt>>

expire(b, c) ==
  /\ memory[b][c] # NoMemory
  /\ memory' = [memory EXCEPT ![b][c].expired = TRUE]
  /\ UNCHANGED <<consents, saving, prompt>>

-----------------------------------------------------------------------------
(* getActiveUserMemories *)
readConsent(b) ==
  /\ prompt = NoPrompt
  /\ latestConsent(b) # NoConsent /\ latestConsent(b).status = "GRANTED"
  /\ prompt' = [bot |-> b, consent |-> latestConsent(b), at |-> Len(consents)]
  /\ UNCHANGED <<consents, memory, saving>>

Expired(b, c) == memory[b][c] # NoMemory /\ memory[b][c].expired
\* What the prompt shows.
Usable == {i \in {prompt.bot, Global} \X prompt.consent.categories :
             Stored(i) /\ ~Expired(i[1], i[2])}

\* Purges what has expired and reads the rest.
readMemories ==
  /\ prompt # NoPrompt
  /\ memory' = Without(Expired)
  /\ prompt' = NoPrompt
  /\ UNCHANGED <<consents, saving>>

MemoryNext ==
  \/ \E s \in Savers :
       \/ \E b \in Scopes, c \in Categories : checkConsent(s, b, c)
       \/ findExisting(s) \/ save(s) \/ saveFails(s)
  \/ \E decision \in Decisions : changeMemoryConsent(decision)
  \/ \E b \in Scopes, c \in Categories : deleteUserMemory(b, c) \/ expire(b, c)
  \/ \E b \in Bots : readConsent(b)
  \/ deleteAllUserMemories \/ readMemories

MemorySpec == MemoryInit /\ [][MemoryNext]_memoryVars

-----------------------------------------------------------------------------
(* Properties. *)

\* The newest decision on a category, for the scope of a memory or for all, among the
\* first n decisions.
DecisionOn(b, c, n) ==
  DecisionAt(SelectLastInSubSeq(consents, 1, n,
                                LAMBDA d : d.bot \in {b, Global} /\ c \in d.categories))

\* docs/phase7-execution.md:10, "revocation hard-deletes the selected memories", in any
\* history of decisions for Bots and for all: a memory is stored only where the newest
\* decision that names its category granted it, unless its save overlapped a decision.
RevokedIsGone ==
  \A b \in Scopes, c \in Categories :
    memory[b][c] # NoMemory /\ ~memory[b][c].late => Covers(DecisionOn(b, c, Len(consents)), c)

\* Revoked memories are gone, and also what an overlapping save has left behind is shown to
\* a Bot only where the newest decision on its category, when the prompt looked, was a grant.
ConsentIsRespected ==
  [][/\ RevokedIsGone'
     /\ \A b \in Scopes, c \in Categories :
          prompt # NoPrompt /\ prompt' = NoPrompt /\ <<b, c>> \in Usable
            => Covers(DecisionOn(prompt.bot, c, prompt.at), c)]_memoryVars
=============================================================================
