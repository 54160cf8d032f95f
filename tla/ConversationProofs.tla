--------------------------- MODULE ConversationProofs ---------------------------
(***************************************************************************)
(* What holds of a chat's conversation, its summaries and what it          *)
(* remembers of its user, for any number of turns, messages, Bots,         *)
(* categories, decisions and save requests; and of what an analysis tells  *)
(* the model about a database, for any tables, limits and weights.         *)
(***************************************************************************)
EXTENDS ChatTurn, UserMemory, MetadataContext, FiniteSetTheorems, WellFoundedInduction, TLAPS

\* A bounded set of numbers has a newest member.
LEMMA MaxIsGreatest ==
  ASSUME NEW n \in Nat, NEW S \in SUBSET (0..n), S # {}
  PROVE  Max(S) \in S /\ \A x \in S : x <= Max(S)
<1> DEFINE T == {n - x : x \in S}
<1>0. T \subseteq Nat
  OBVIOUS
<1>1. T # {}
  <2>1. PICK x : x \in S
    OBVIOUS
  <2>2. n - x \in T
    BY <2>1
  <2> QED BY <2>2
<1>2. PICK t \in T : \A u \in T : ~(<<u, t>> \in OpToRel(<, Nat))
  <2> HIDE DEF T
  <2> QED BY <1>0, <1>1, NatLessThanWellFounded, WFMin
<1>3. \A u \in T : t <= u
  <2> SUFFICES ASSUME NEW u \in T PROVE ~(u < t)
    BY <1>0
  <2>1. ~(<<u, t>> \in OpToRel(<, Nat)) /\ u \in Nat /\ t \in Nat
    BY <1>0, <1>2
  <2>2. OpToRel(<, Nat) = {p \in Nat \X Nat : p[1] < p[2]}
    BY DEF OpToRel
  <2> QED BY <2>1, <2>2
<1>4. PICK x \in S : t = n - x
  OBVIOUS
<1>5. \A y \in S : x >= y
  <2> SUFFICES ASSUME NEW y \in S PROVE x >= y
    OBVIOUS
  <2>1. n - x <= n - y
    BY <1>3, <1>4
  <2> QED BY <2>1
<1>6. \A y \in S : Max(S) >= y
  BY <1>4, <1>5 DEF Max
<1>7. Max(S) \in S
  BY <1>4, <1>5 DEF Max
<1> QED BY <1>6, <1>7

-----------------------------------------------------------------------------
(* UserMemory *)

SaveRows ==
  [phase: {"Idle", "Find", "Write"}, identity: Scopes \X (Categories \cup {NoMemory}),
   found: Identities \cup {NoMemory}, at: 0..MaxConsents]
PromptRows == [bot: Scopes, consent: Decisions \cup {NoConsent}, at: 0..MaxConsents]

MemoryTypes ==
  /\ consents \in Seq(Decisions) /\ Len(consents) <= MaxConsents
  /\ memory \in [Scopes -> [Categories -> Memories \cup {NoMemory}]]
  /\ saving \in [Savers -> SaveRows]
  /\ prompt \in PromptRows
  /\ \A s \in Savers : saving[s].phase # "Idle" => saving[s].identity \in Identities

\* The first n of some decisions that name a category for a scope or for all.
Naming(decisions, b, c, n) ==
  {i \in 1..n : decisions[i].bot \in {b, Global} /\ c \in decisions[i].categories}
Newer(S) == IF S # {} THEN Max(S) ELSE 0

\* Is the newest of them a grant?
IsGrant(decisions, b, c, n) ==
  LET i == Newer(Naming(decisions, b, c, n))
  IN i # 0 /\ Covers(decisions[i], c)

\* A save goes on only where the newest decision on its category was a grant when it looked.
SavesWereAllowed ==
  \A s \in Savers : saving[s].phase # "Idle" =>
    /\ saving[s].at <= Len(consents)
    /\ IsGrant(consents, saving[s].identity[1], saving[s].identity[2], saving[s].at)

\* The newest decision that concerns a Bot is the newest on each of its categories.
PromptIsCovered ==
  prompt # NoPrompt =>
    /\ prompt.at <= Len(consents)
    /\ \A c \in Categories : c \in prompt.consent.categories =>
                              IsGrant(consents, prompt.bot, c, prompt.at)

MemoriesAreGranted ==
  \A b \in Scopes, c \in Categories :
    memory[b][c] # NoMemory /\ ~memory[b][c].late => IsGrant(consents, b, c, Len(consents))

MemoryInv == MemoryTypes /\ SavesWereAllowed /\ PromptIsCovered /\ MemoriesAreGranted

LEMMA GrantsAreDecided ==
  ASSUME NEW b, NEW c, NEW n
  PROVE  Covers(DecisionOn(b, c, n), c) <=> IsGrant(consents, b, c, n)
BY DEF DecisionOn, SelectLastInSubSeq, Newer, Naming, IsGrant, Covers, DecisionAt

LEMMA NewerIsGreatest ==
  ASSUME NEW n \in Nat, NEW S \in SUBSET (1..n)
  PROVE  /\ Newer(S) \in 0..n /\ (S = {} => Newer(S) = 0)
         /\ S # {} => Newer(S) \in S /\ \A i \in S : i <= Newer(S)
         /\ \A m \in S : (\A i \in S : i <= m) => Newer(S) = m
<1>1. CASE S = {}
  BY <1>1 DEF Newer
<1>2. CASE S # {}
  <2>1. S \in SUBSET (0..n)
    OBVIOUS
  <2>2. Newer(S) = Max(S)
    BY <1>2 DEF Newer
  <2>3. Newer(S) \in S /\ \A i \in S : i <= Newer(S)
    BY <1>2, <2>1, <2>2, MaxIsGreatest
  <2>4. ASSUME NEW m \in S, \A i \in S : i <= m PROVE Newer(S) = m
    <3>1. m <= Newer(S) /\ Newer(S) <= m
      BY <2>3, <2>4
    <3>2. m \in 1..n /\ Newer(S) \in 1..n
      BY <2>3
    <3> QED BY <3>1, <3>2
  <2>5. Newer(S) \in 0..n
    <3>1. Newer(S) \in 1..n
      BY <2>3
    <3>2. 1..n \subseteq 0..n
      OBVIOUS
    <3> QED BY <3>1, <3>2
  <2> QED BY <1>2, <2>3, <2>4, <2>5
<1> QED BY <1>1, <1>2

\* Later decisions leave the earlier ones alone.
LEMMA GrantsStay ==
  ASSUME consents \in Seq(Decisions), NEW d \in Decisions, consents' = Append(consents, d),
         NEW b, NEW c, NEW n \in 0..Len(consents)
  PROVE  IsGrant(consents', b, c, n) <=> IsGrant(consents, b, c, n)
<1>1. \A i \in 1..n : consents'[i] = consents[i]
  OBVIOUS
<1>2. Naming(consents', b, c, n) = Naming(consents, b, c, n)
  BY <1>1 DEF Naming
<1>3. Newer(Naming(consents, b, c, n)) \in 0..n
  <2>1. n \in Nat /\ Naming(consents, b, c, n) \in SUBSET (1..n)
    BY DEF Naming
  <2> QED BY <2>1, NewerIsGreatest
<1> QED BY <1>1, <1>2, <1>3 DEF IsGrant

\* What the newest decision on a Bot grants is the newest decision on the category.
LEMMA LatestDecides ==
  ASSUME MemoryTypes, NEW b \in Scopes, NEW c \in Categories, Covers(latestConsent(b), c)
  PROVE  IsGrant(consents, b, c, Len(consents))
<1> DEFINE n == Len(consents)
<1> DEFINE all == {i \in 1..n : consents[i].bot \in {b, Global}}
<1> DEFINE on == Naming(consents, b, c, n)
<1>1. latestConsent(b) = DecisionAt(Newer(all))
  BY DEF latestConsent, SelectLastInSeq, Newer
<1>2. n \in Nat /\ all \in SUBSET (1..n) /\ on \in SUBSET (1..n)
  BY DEF MemoryTypes, Naming
<1>3. all # {}
  BY <1>1 DEF DecisionAt, Newer, Covers
<1>4. Newer(all) \in all /\ \A i \in all : i <= Newer(all)
  <2> HIDE DEF all, n
  <2> QED BY <1>2, <1>3, NewerIsGreatest
<1>5. latestConsent(b) = consents[Newer(all)]
  BY <1>1, <1>2, <1>4 DEF DecisionAt
<1>6. Newer(all) \in on /\ on \subseteq all
  BY <1>4, <1>5 DEF Naming, Covers
<1>7. Newer(on) = Newer(all)
  <2> HIDE DEF all, on, n
  <2>1. \A i \in on : i <= Newer(all)
    BY <1>4, <1>6
  <2> QED BY <1>2, <1>6, <2>1, NewerIsGreatest
<1>8. Newer(on) # 0
  BY <1>2, <1>4, <1>7
<1> QED BY <1>5, <1>7, <1>8 DEF IsGrant

\* A decision is the newest one on what it names, and the others stay the newest.
LEMMA DecisionTaken ==
  ASSUME MemoryTypes, NEW d \in Decisions, consents' = Append(consents, d),
         NEW b \in Scopes, NEW c \in Categories, NEW n \in Nat, n = Len(consents)
  PROVE  IsGrant(consents', b, c, n + 1)
           <=> IF d.bot \in {b, Global} /\ c \in d.categories THEN Covers(d, c)
               ELSE IsGrant(consents, b, c, n)
<1> DEFINE before == Naming(consents, b, c, n)
<1> DEFINE after == Naming(consents', b, c, n + 1)
<1>1. /\ \A i \in 1..n : consents'[i] = consents[i]
      /\ consents'[n + 1] = d /\ Len(consents) = n
  BY DEF MemoryTypes
<1>2. /\ n + 1 \in Nat
      /\ before \in SUBSET (1..n) /\ after \in SUBSET (1..(n + 1))
  BY DEF Naming
<1>3. CASE d.bot \in {b, Global} /\ c \in d.categories
  <2>1. n + 1 \in after /\ \A i \in after : i <= n + 1
    BY <1>1, <1>3 DEF Naming
  <2>2. Newer(after) = n + 1
    <3> HIDE DEF after
    <3> QED BY <1>2, <2>1, NewerIsGreatest
  <2> QED BY <1>1, <1>3, <2>2 DEF IsGrant
<1>4. CASE ~(d.bot \in {b, Global} /\ c \in d.categories)
  <2>1. after = before
    <3>1. \A i \in 1..(n + 1) : i \in 1..n \/ i = n + 1
      OBVIOUS
    <3>2. \A i \in 1..n : i \in 1..(n + 1)
      OBVIOUS
    <3> QED BY <1>1, <1>4, <3>1, <3>2 DEF Naming
  <2>2. Newer(before) \in 0..n
    <3> HIDE DEF before
    <3> QED BY <1>2, NewerIsGreatest
  <2> QED BY <1>1, <1>4, <2>1, <2>2 DEF IsGrant
<1> QED BY <1>3, <1>4

LEMMA MemoryTypesInit == MemoryInit => MemoryTypes
<1> SUFFICES ASSUME MemoryInit PROVE MemoryTypes
  OBVIOUS
<1>1. NoSave \in SaveRows /\ NoPrompt \in PromptRows
  BY MemoryAssumption DEF NoSave, NoPrompt, SaveRows, PromptRows, Scopes, Identities
<1>2. \A s \in Savers : saving[s].phase = "Idle"
  BY DEF MemoryInit, NoSave
<1> QED BY <1>1, <1>2, MemoryAssumption DEF MemoryInit, MemoryTypes

LEMMA MemoryTypesStep == MemoryTypes /\ [MemoryNext]_memoryVars => MemoryTypes'
<1> SUFFICES ASSUME MemoryTypes, [MemoryNext]_memoryVars PROVE MemoryTypes'
  OBVIOUS
<1> USE MemoryAssumption
<1>0. NoSave \in SaveRows /\ NoSave.phase = "Idle" /\ NoPrompt \in PromptRows
  BY DEF NoSave, NoPrompt, SaveRows, PromptRows, Scopes, Identities
<1>1. ASSUME NEW s \in Savers, NEW b \in Scopes, NEW c \in Categories, checkConsent(s, b, c)
      PROVE  MemoryTypes'
  <2> DEFINE row == [NoSave EXCEPT !.phase = "Find", !.identity = <<b, c>>, !.at = Len(consents)]
  <2>1. Len(consents) \in 0..MaxConsents /\ <<b, c>> \in Identities
    BY DEF MemoryTypes, Identities
  <2>2. row \in SaveRows /\ row.identity \in Identities
    BY <2>1 DEF NoSave, SaveRows, Identities, Scopes
  <2>3. saving' = [saving EXCEPT ![s] = row]
    BY <1>1 DEF checkConsent
  <2> HIDE DEF row
  <2> QED BY <1>1, <2>2, <2>3 DEF checkConsent, MemoryTypes
<1>2. ASSUME NEW s \in Savers, findExisting(s) PROVE MemoryTypes'
  <2>1. PICK found \in Identities \cup {NoMemory} :
          saving' = [saving EXCEPT ![s].phase = "Write", ![s].found = found]
    BY <1>2 DEF findExisting
  <2> DEFINE row == [saving[s] EXCEPT !.phase = "Write", !.found = found]
  <2>2. saving' = [saving EXCEPT ![s] = row]
    BY <2>1 DEF MemoryTypes
  <2>3. saving[s] \in SaveRows /\ saving[s].identity \in Identities
    BY <1>2 DEF MemoryTypes, findExisting
  <2>4. row \in SaveRows /\ row.identity \in Identities
    BY <2>3 DEF SaveRows
  <2> HIDE DEF row
  <2> QED BY <1>2, <2>2, <2>4 DEF findExisting, MemoryTypes
<1>3. ASSUME NEW s \in Savers, save(s) PROVE MemoryTypes'
  <2>1. \A b \in Scopes, c \in Categories : Saved(s, <<b, c>>) \in Memories \cup {NoMemory}
    BY DEF Saved, Memories, MemoryTypes
  <2>2. memory' \in [Scopes -> [Categories -> Memories \cup {NoMemory}]]
    BY <1>3, <2>1 DEF save
  <2> QED BY <1>0, <1>3, <2>2 DEF save, MemoryTypes
<1>4. ASSUME NEW s \in Savers, saveFails(s) PROVE MemoryTypes'
  BY <1>0, <1>4 DEF saveFails, MemoryTypes
<1>5. ASSUME NEW d \in Decisions, changeMemoryConsent(d) PROVE MemoryTypes'
  <2>1. consents' \in Seq(Decisions) /\ Len(consents') = Len(consents) + 1
    BY <1>5 DEF changeMemoryConsent, MemoryTypes
  <2>2. Len(consents') <= MaxConsents
    BY <1>5, <2>1 DEF changeMemoryConsent, MemoryTypes
  <2>3. memory' \in [Scopes -> [Categories -> Memories \cup {NoMemory}]]
    BY <1>5 DEF changeMemoryConsent, MemoryTypes
  <2> QED BY <1>5, <2>1, <2>2, <2>3 DEF changeMemoryConsent, MemoryTypes
<1>6. ASSUME NEW b \in Scopes, NEW c \in Categories, deleteUserMemory(b, c) PROVE MemoryTypes'
  BY <1>6 DEF deleteUserMemory, Without, MemoryTypes
<1>7. ASSUME NEW b \in Scopes, NEW c \in Categories, expire(b, c) PROVE MemoryTypes'
  <2>1. memory[b] \in [Categories -> Memories \cup {NoMemory}] /\ memory[b][c] \in Memories
    BY <1>7 DEF expire, MemoryTypes
  <2>2. [memory[b][c] EXCEPT !.expired = TRUE] \in Memories
    BY <2>1 DEF Memories
  <2>3. [memory[b] EXCEPT ![c] = [memory[b][c] EXCEPT !.expired = TRUE]]
          \in [Categories -> Memories \cup {NoMemory}]
    BY <2>1, <2>2
  <2>4. memory' = [memory EXCEPT ![b] =
                     [memory[b] EXCEPT ![c] = [memory[b][c] EXCEPT !.expired = TRUE]]]
    BY <1>7 DEF expire
  <2>5. memory' \in [Scopes -> [Categories -> Memories \cup {NoMemory}]]
    BY <2>3, <2>4 DEF MemoryTypes
  <2> QED BY <1>7, <2>5 DEF expire, MemoryTypes
<1>8. ASSUME NEW b \in Bots, readConsent(b) PROVE MemoryTypes'
  <2>1. latestConsent(b) \in Decisions
    <3> DEFINE all == {i \in 1..Len(consents) : consents[i].bot \in {b, Global}}
    <3>1. latestConsent(b) = DecisionAt(Newer(all))
      BY DEF latestConsent, SelectLastInSeq, Newer
    <3>2. Len(consents) \in Nat /\ all \in SUBSET (1..Len(consents))
      BY DEF MemoryTypes
    <3>3. Newer(all) \in 0..Len(consents)
      <4> HIDE DEF all
      <4> QED BY <3>2, NewerIsGreatest
    <3> HIDE DEF all
    <3>4. latestConsent(b) # NoConsent
      BY <1>8 DEF readConsent
    <3>5. Newer(all) \in 1..Len(consents)
      BY <3>1, <3>2, <3>3, <3>4 DEF DecisionAt
    <3> QED BY <3>1, <3>5 DEF DecisionAt, MemoryTypes
  <2>2. prompt' \in PromptRows
    BY <1>8, <2>1 DEF readConsent, PromptRows, Scopes, MemoryTypes
  <2> QED BY <1>8, <2>2 DEF readConsent, MemoryTypes
<1>9. CASE deleteAllUserMemories
  BY <1>9 DEF deleteAllUserMemories, Without, MemoryTypes
<1>10. CASE readMemories
  <2>1. memory' \in [Scopes -> [Categories -> Memories \cup {NoMemory}]]
    BY <1>10 DEF readMemories, Without, MemoryTypes
  <2> QED BY <1>0, <1>10, <2>1 DEF readMemories, MemoryTypes
<1>11. CASE UNCHANGED memoryVars
  BY <1>11 DEF memoryVars, MemoryTypes
<1> QED
  BY <1>1, <1>2, <1>3, <1>4, <1>5, <1>6, <1>7, <1>8, <1>9, <1>10, <1>11 DEF MemoryNext

\* The same decisions: what is kept was kept before, and so is what requests have read.
LEMMA MemoryQuiet ==
  ASSUME MemoryInv, MemoryTypes', UNCHANGED consents,
         \A b \in Scopes, c \in Categories :
           memory'[b][c] # NoMemory /\ ~memory'[b][c].late =>
             \/ memory[b][c] # NoMemory /\ ~memory[b][c].late
             \/ IsGrant(consents, b, c, Len(consents)),
         \A s \in Savers : saving'[s].phase # "Idle" =>
           \/ /\ saving[s].phase # "Idle"
              /\ saving'[s].identity = saving[s].identity /\ saving'[s].at = saving[s].at
           \/ /\ saving'[s].at <= Len(consents)
              /\ IsGrant(consents, saving'[s].identity[1], saving'[s].identity[2],
                         saving'[s].at),
         prompt' \in {prompt, NoPrompt}
  PROVE  MemoryInv'
<1>1. SavesWereAllowed'
  BY DEF MemoryInv, SavesWereAllowed
<1>2. PromptIsCovered'
  BY DEF MemoryInv, PromptIsCovered
<1>3. MemoriesAreGranted'
  BY DEF MemoryInv, MemoriesAreGranted
<1> QED BY <1>1, <1>2, <1>3 DEF MemoryInv

\* A decision leaves what was read before it as it was, and memories only where it or the
\* newest decision before it grants them.
LEMMA MemoryDecisionStep ==
  ASSUME MemoryInv, MemoryTypes', NEW d \in Decisions, changeMemoryConsent(d)
  PROVE  MemoryInv'
<1> DEFINE n == Len(consents)
<1>1. /\ consents' = Append(consents, d) /\ Len(consents') = n + 1
      /\ n \in Nat /\ consents \in Seq(Decisions) /\ MemoryTypes
      /\ saving' = saving /\ prompt' = prompt
  BY DEF changeMemoryConsent, MemoryInv, MemoryTypes
<1>2. \A m \in 0..n : \A b, c : IsGrant(consents', b, c, m) <=> IsGrant(consents, b, c, m)
  BY <1>1, GrantsStay
<1>3. \A m \in Nat : m <= n => m \in 0..n /\ m <= n + 1
  BY <1>1
<1>4. SavesWereAllowed'
  <2>1. \A s \in Savers : saving[s].at \in Nat
    BY <1>1 DEF MemoryTypes, SaveRows
  <2> HIDE DEF n
  <2> QED BY <1>1, <1>2, <1>3, <2>1 DEF MemoryInv, SavesWereAllowed, n
<1>5. PromptIsCovered'
  <2>1. prompt.at \in Nat
    BY <1>1 DEF MemoryTypes, PromptRows
  <2> QED BY <1>1, <1>2, <1>3, <2>1 DEF MemoryInv, PromptIsCovered
<1>6. MemoriesAreGranted'
  <2> SUFFICES ASSUME NEW b \in Scopes, NEW c \in Categories,
                      memory'[b][c] # NoMemory, ~memory'[b][c].late
               PROVE  IsGrant(consents', b, c, n + 1)
    BY <1>1 DEF MemoriesAreGranted
  <2>1. memory'[b][c] = memory[b][c]
    BY DEF changeMemoryConsent
  <2>2. IsGrant(consents, b, c, n)
    BY <2>1 DEF MemoryInv, MemoriesAreGranted
  <2>3. IsGrant(consents', b, c, n + 1)
          <=> IF d.bot \in {b, Global} /\ c \in d.categories THEN Covers(d, c)
              ELSE IsGrant(consents, b, c, n)
    <3>1. n \in Nat /\ n = Len(consents)
      BY <1>1
    <3> HIDE DEF n
    <3> QED BY <1>1, <3>1, DecisionTaken
  <2>4. CASE d.bot \in {b, Global} /\ c \in d.categories
    <3>1. b \in RevokedScopes(d.bot)
      BY <2>4 DEF RevokedScopes
    <3>2. d.status = "GRANTED"
      BY <2>4, <3>1, MemoryAssumption DEF changeMemoryConsent
    <3>3. d # NoConsent
      BY MemoryAssumption
    <3> QED BY <2>3, <2>4, <3>2, <3>3 DEF Covers
  <2> QED BY <2>2, <2>3, <2>4
<1> QED BY <1>4, <1>5, <1>6 DEF MemoryInv

LEMMA MemoryStep == MemoryInv /\ [MemoryNext]_memoryVars => MemoryInv'
<1> SUFFICES ASSUME MemoryInv, [MemoryNext]_memoryVars PROVE MemoryInv'
  OBVIOUS
<1>0. MemoryTypes /\ MemoryTypes'
  BY MemoryTypesStep DEF MemoryInv
<1>1. ASSUME NEW s \in Savers, NEW b \in Scopes, NEW c \in Categories, checkConsent(s, b, c)
      PROVE  MemoryInv'
  <2>1. IsGrant(consents, b, c, Len(consents)) /\ Len(consents) <= Len(consents)
    BY <1>0, <1>1, LatestDecides DEF checkConsent, MemoryTypes
  <2>2. /\ saving'[s].identity = <<b, c>> /\ saving'[s].at = Len(consents)
        /\ \A q \in Savers : q # s => saving'[q] = saving[q]
    BY <1>0, <1>1 DEF checkConsent, NoSave, MemoryTypes
  <2>3. saving'[s].identity[1] = b /\ saving'[s].identity[2] = c
    BY <2>2
  <2> QED BY <1>0, <1>1, <2>1, <2>2, <2>3, MemoryQuiet DEF checkConsent
<1>2. ASSUME NEW s \in Savers, findExisting(s) PROVE MemoryInv'
  <2>1. PICK found : saving' = [saving EXCEPT ![s].phase = "Write", ![s].found = found]
    BY <1>2 DEF findExisting
  <2>2. \A q \in Savers : /\ saving'[q].identity = saving[q].identity
                          /\ saving'[q].at = saving[q].at
                          /\ saving'[q].phase # "Idle" => saving[q].phase # "Idle"
    BY <1>0, <1>2, <2>1 DEF MemoryTypes, SaveRows, findExisting
  <2> QED BY <1>0, <1>2, <2>2, MemoryQuiet DEF findExisting
<1>3. ASSUME NEW s \in Savers, save(s) PROVE MemoryInv'
  <2>1. \A q \in Savers : saving'[q].phase # "Idle" => saving'[q] = saving[q]
    BY <1>0, <1>3 DEF save, NoSave, MemoryTypes
  <2>2. ASSUME NEW b \in Scopes, NEW c \in Categories,
               memory'[b][c] # NoMemory, ~memory'[b][c].late
        PROVE  \/ memory[b][c] # NoMemory /\ ~memory[b][c].late
               \/ IsGrant(consents, b, c, Len(consents))
    <3>1. memory'[b][c] = Saved(s, <<b, c>>)
      BY <1>3 DEF save
    <3>2. CASE <<b, c>> = saving[s].identity
      <4>1. memory'[b][c].late = (saving[s].at # Len(consents))
        BY <3>1, <3>2 DEF Saved
      <4>2. saving[s].identity[1] = b /\ saving[s].identity[2] = c
        BY <3>2
      <4> QED BY <1>3, <2>2, <4>1, <4>2 DEF MemoryInv, SavesWereAllowed, save
    <3>3. CASE <<b, c>> # saving[s].identity
      BY <2>2, <3>1, <3>3 DEF Saved
    <3> QED BY <3>2, <3>3
  <2> QED BY <1>0, <1>3, <2>1, <2>2, MemoryQuiet DEF save
<1>4. ASSUME NEW s \in Savers, saveFails(s) PROVE MemoryInv'
  <2>1. \A q \in Savers : saving'[q].phase # "Idle" => saving'[q] = saving[q]
    BY <1>0, <1>4 DEF saveFails, NoSave, MemoryTypes
  <2> QED BY <1>0, <1>4, <2>1, MemoryQuiet DEF saveFails
<1>5. ASSUME NEW d \in Decisions, changeMemoryConsent(d) PROVE MemoryInv'
  BY <1>0, <1>5, MemoryDecisionStep
<1>6. ASSUME NEW b \in Scopes, NEW c \in Categories, deleteUserMemory(b, c) PROVE MemoryInv'
  <2>1. \A x \in Scopes, y \in Categories :
          memory'[x][y] # NoMemory => memory'[x][y] = memory[x][y]
    BY <1>6 DEF deleteUserMemory, Without
  <2> QED BY <1>0, <1>6, <2>1, MemoryQuiet DEF deleteUserMemory
<1>7. ASSUME NEW b \in Scopes, NEW c \in Categories, expire(b, c) PROVE MemoryInv'
  <2>1. memory[b][c] # NoMemory /\ memory[b][c] \in Memories
    BY <1>0, <1>7 DEF expire, MemoryTypes
  <2>2. memory'[b][c].late = memory[b][c].late
    BY <1>0, <1>7, <2>1 DEF expire, MemoryTypes, Memories
  <2>3. \A x \in Scopes, y \in Categories : x # b \/ y # c => memory'[x][y] = memory[x][y]
    BY <1>0, <1>7 DEF expire, MemoryTypes
  <2> QED BY <1>0, <1>7, <2>1, <2>2, <2>3, MemoryQuiet DEF expire
<1>8. ASSUME NEW b \in Bots, readConsent(b) PROVE MemoryInv'
  <2>1. /\ latestConsent(b) # NoConsent /\ latestConsent(b).status = "GRANTED" /\ b \in Scopes
        /\ prompt'.bot = b /\ prompt'.at = Len(consents) /\ prompt'.consent = latestConsent(b)
        /\ consents' = consents /\ memory' = memory /\ saving' = saving
    BY <1>8 DEF readConsent, Scopes
  <2>2. \A c \in Categories : c \in latestConsent(b).categories
          => IsGrant(consents, b, c, Len(consents))
    BY <1>0, <2>1, LatestDecides DEF Covers
  <2>3. Len(consents) <= Len(consents)
    BY <1>0 DEF MemoryTypes
  <2>4. PromptIsCovered' /\ SavesWereAllowed' /\ MemoriesAreGranted'
    BY <2>1, <2>2, <2>3 DEF PromptIsCovered, MemoryInv, SavesWereAllowed, MemoriesAreGranted
  <2> QED BY <1>0, <2>4 DEF MemoryInv
<1>9. CASE deleteAllUserMemories
  <2>1. \A x \in Scopes, y \in Categories : memory'[x][y] = NoMemory
    BY <1>9 DEF deleteAllUserMemories, Without
  <2> QED BY <1>0, <1>9, <2>1, MemoryQuiet DEF deleteAllUserMemories
<1>10. CASE readMemories
  <2>1. \A x \in Scopes, y \in Categories :
          memory'[x][y] # NoMemory => memory'[x][y] = memory[x][y]
    BY <1>10 DEF readMemories, Without
  <2> QED BY <1>0, <1>10, <2>1, MemoryQuiet DEF readMemories
<1>11. CASE UNCHANGED memoryVars
  BY <1>0, <1>11, MemoryQuiet DEF memoryVars
<1> QED
  BY <1>1, <1>2, <1>3, <1>4, <1>5, <1>6, <1>7, <1>8, <1>9, <1>10, <1>11 DEF MemoryNext

LEMMA MemoryInvariant == MemorySpec => []MemoryInv
<1>1. MemoryInit => MemoryInv
  BY MemoryTypesInit DEF MemoryInit, MemoryInv, SavesWereAllowed, PromptIsCovered,
                         MemoriesAreGranted, NoSave
<1> QED BY <1>1, MemoryStep, PTL DEF MemorySpec

\* Whatever saves, decisions, deletions and prompts overlap, a memory stays only where the
\* newest decision on its category grants it, and a prompt shows only what was granted when
\* it looked.
THEOREM ConsentIsKept == MemorySpec => ConsentIsRespected
<1>1. MemoryInv => RevokedIsGone
  BY GrantsAreDecided DEF MemoryInv, MemoriesAreGranted, RevokedIsGone
<1>2. MemoryInv => \A b \in Scopes, c \in Categories :
        prompt # NoPrompt /\ <<b, c>> \in Usable
          => Covers(DecisionOn(prompt.bot, c, prompt.at), c)
  BY GrantsAreDecided DEF MemoryInv, PromptIsCovered, Usable
<1>3. MemoryInv /\ RevokedIsGone' /\ [MemoryNext]_memoryVars =>
        [/\ RevokedIsGone'
         /\ \A b \in Scopes, c \in Categories :
              prompt # NoPrompt /\ prompt' = NoPrompt /\ <<b, c>> \in Usable
                => Covers(DecisionOn(prompt.bot, c, prompt.at), c)]_memoryVars
  BY <1>2
<1> QED BY <1>1, <1>3, MemoryInvariant, PTL DEF MemorySpec, ConsentIsRespected

-----------------------------------------------------------------------------
(* ChatTurn *)

Messages == [role: {"USER", "ASSISTANT"}, offers: BOOLEAN]
TurnRows == [phase: TurnPhases, confirmed: BOOLEAN, offers: BOOLEAN,
             evidence: SUBSET Chunks, version: Nat, ids: SUBSET Nat]

ChatTypes ==
  /\ conversation \in {"LIVE", "DELETED", "GONE"}
  /\ messages \in Seq(Messages)
  /\ turn \in [Turns -> TurnRows]
  /\ citations \subseteq Nat \X Chunks /\ chunks \subseteq Chunks
  /\ summaries \subseteq [version: Nat \ {0}, ids: SUBSET Nat]

\* The versions are those from 1 to that of the newest.
VersionsAreGapless ==
  /\ \A s \in summaries : \A v \in 1..s.version : \E other \in summaries : other.version = v
  /\ summaries # {} => \E top \in summaries : \A other \in summaries : other.version <= top.version

\* What a turn is about to store goes beyond the summary it has read, which nobody changes.
DraftsFollow ==
  \A t \in Turns : turn[t].phase = "Summarize" /\ conversation # "GONE" =>
    /\ turn[t].version # 0
    /\ \E n \in 1..Len(messages) - KeepRecent : turn[t].ids = 1..n
    /\ turn[t].version # 1 =>
         \E before \in summaries : /\ before.version = turn[t].version - 1
                                   /\ before.ids \subseteq turn[t].ids
                                   /\ before.ids # turn[t].ids

ChatInv ==
  /\ ChatTypes
  /\ conversation = "GONE" => summaries = {}
  /\ VersionsAreGapless /\ SummariesArePrefixes /\ DraftsFollow
  /\ CitationsAreStored

\* After the first k of the messages the candidates are all but the newest KeepRecent.
LEMMA CandidatesAreOlder ==
  ASSUME NEW L \in Nat, NEW k \in 0..L
  PROVE  Candidates((k + 1)..L) = (k + 1)..(L - KeepRecent)
<1>0. KeepRecent \in Nat
  BY ChatAssumption
<1>1. ASSUME NEW i \in (k + 1)..L
      PROVE  Cardinality({j \in (k + 1)..L : i < j}) = L - i
  <2>1. {j \in (k + 1)..L : i < j} = (i + 1)..L
    OBVIOUS
  <2>2. i + 1 \in Int /\ L \in Int
    OBVIOUS
  <2>3. Cardinality((i + 1)..L) = IF i + 1 > L THEN 0 ELSE L - (i + 1) + 1
    BY <2>2, FS_Interval
  <2>4. i \in Int /\ i <= L
    OBVIOUS
  <2>5. (IF i + 1 > L THEN 0 ELSE L - (i + 1) + 1) = L - i
    BY <2>2, <2>4
  <2> QED BY <2>1, <2>3, <2>5
<1>2. Candidates((k + 1)..L) = {i \in (k + 1)..L : L - i >= KeepRecent}
  BY <1>1 DEF Candidates
<1>3. ASSUME NEW i \in (k + 1)..L, L - i >= KeepRecent PROVE i \in (k + 1)..(L - KeepRecent)
  BY <1>0, <1>3
<1>4. ASSUME NEW i \in (k + 1)..(L - KeepRecent) PROVE i \in (k + 1)..L /\ L - i >= KeepRecent
  BY <1>0
<1> QED BY <1>2, <1>3, <1>4

LEMMA ChatTypesInit == ChatInit => ChatInv
<1> SUFFICES ASSUME ChatInit PROVE ChatInv
  OBVIOUS
<1>1. NewTurn \in TurnRows /\ NewTurn.phase = "Idle"
  BY DEF NewTurn, TurnRows, TurnPhases
<1>2. messages \in Seq(Messages)
  <2>1. PICK offers \in BOOLEAN :
          messages \in {<< >>, <<[role |-> "USER", offers |-> FALSE],
                                [role |-> "ASSISTANT", offers |-> offers]>>}
    BY DEF ChatInit
  <2>2. [role |-> "USER", offers |-> FALSE] \in Messages
        /\ [role |-> "ASSISTANT", offers |-> offers] \in Messages
    BY DEF Messages
  <2>3. \A x, y \in Messages : <<x, y>> \in Seq(Messages)
    OBVIOUS
  <2>4. << >> \in Seq(Messages)
    OBVIOUS
  <2> QED BY <2>1, <2>2, <2>3, <2>4
<1>3. ChatTypes
  BY <1>1, <1>2 DEF ChatInit, ChatTypes
<1>4. DraftsFollow
  BY <1>1 DEF ChatInit, DraftsFollow
<1> QED
  BY <1>3, <1>4 DEF ChatInit, ChatInv, VersionsAreGapless, SummariesArePrefixes,
                    CitationsAreStored

\* The steps of a turn that touch only the turn.
TurnMoves(t) ==
  /\ \E row \in TurnRows : turn' = [turn EXCEPT ![t] = row]
  /\ turn'[t].phase # "Summarize"
  /\ UNCHANGED <<conversation, messages, citations, chunks, summaries>>

LEMMA ChatTurnMoves ==
  ASSUME ChatInv, NEW t \in Turns, TurnMoves(t)
  PROVE  ChatInv'
<1>1. PICK row \in TurnRows : turn' = [turn EXCEPT ![t] = row]
  BY DEF TurnMoves
<1>2. ChatTypes'
  BY <1>1 DEF ChatInv, ChatTypes, TurnMoves
<1>3. \A u \in Turns : turn'[u].phase = "Summarize" => turn'[u] = turn[u]
  BY <1>1 DEF ChatInv, ChatTypes, TurnMoves
<1>4. DraftsFollow'
  BY <1>3 DEF ChatInv, DraftsFollow, TurnMoves
<1> QED
  BY <1>2, <1>4 DEF ChatInv, VersionsAreGapless, SummariesArePrefixes, CitationsAreStored,
                    TurnMoves, Answers

\* A message is added and a turn goes on.
LEMMA ChatMessageStep ==
  ASSUME ChatInv, NEW t \in Turns, NEW row \in TurnRows, row.phase # "Summarize",
         turn' = [turn EXCEPT ![t] = row],
         NEW m \in Messages, messages' = Append(messages, m), conversation' = conversation,
         chunks' = chunks, summaries' = summaries,
         \/ citations' = citations
         \/ /\ m.role = "ASSISTANT" /\ turn[t].evidence \subseteq chunks
            /\ citations' = citations \cup ({Len(messages) + 1} \X turn[t].evidence)
  PROVE  ChatInv'
<1>1. /\ Len(messages') = Len(messages) + 1 /\ Len(messages) \in Nat
      /\ messages' \in Seq(Messages) /\ messages'[Len(messages) + 1] = m
      /\ \A i \in DOMAIN messages : i \in DOMAIN messages' /\ messages'[i] = messages[i]
      /\ Len(messages) + 1 \in DOMAIN messages'
  BY DEF ChatInv, ChatTypes
<1>2. KeepRecent \in Nat
  BY ChatAssumption
<1>3. 1..Len(messages) - KeepRecent \subseteq 1..Len(messages') - KeepRecent
  BY <1>1, <1>2
<1>4. ChatTypes'
  BY <1>1 DEF ChatInv, ChatTypes
<1>5. \A u \in Turns : turn'[u].phase = "Summarize" => turn'[u] = turn[u]
  BY DEF ChatInv, ChatTypes
<1>6. DraftsFollow'
  BY <1>3, <1>5 DEF ChatInv, DraftsFollow
<1>7. SummariesArePrefixes' /\ VersionsAreGapless'
  BY <1>3 DEF ChatInv, SummariesArePrefixes, VersionsAreGapless
<1>8. CitationsAreStored'
  BY <1>1 DEF ChatInv, CitationsAreStored, Answers
<1> QED BY <1>4, <1>6, <1>7, <1>8 DEF ChatInv

LEMMA ChatReadStep ==
  ASSUME ChatInv, NEW t \in Turns, readSummary(t), turn'[t].phase = "Summarize"
  PROVE  ChatInv'
<1>1. /\ turn[t].phase = "Memory" /\ conversation = "LIVE"
      /\ Cardinality(Candidates(Unsummarized)) >= MinCandidates
      /\ turn' = [turn EXCEPT ![t].phase = "Summarize", ![t].version = Newest.version + 1,
                              ![t].ids = Newest.ids \cup Candidates(Unsummarized)]
      /\ UNCHANGED <<conversation, old, messages, citations, chunks, summaries>>
  BY DEF readSummary, Go, ChatInv, ChatTypes, TurnRows
<1> DEFINE L == Len(messages)
<1>2. L \in Nat /\ DOMAIN messages = 1..L /\ KeepRecent \in Nat /\ MinCandidates \in Nat \ {0}
  BY ChatAssumption DEF ChatInv, ChatTypes
<1>3. /\ Newest.version \in Nat
      /\ \E k \in 0..L : Newest.ids = 1..k
      /\ summaries = {} => Newest.version = 0
      /\ summaries # {} => Newest \in summaries
  <2>1. CASE summaries = {}
    <3>1. Newest = [version |-> 0, ids |-> {}]
      BY <2>1 DEF Newest
    <3>2. 1..0 = {} /\ 0 \in 0..L
      BY <1>2
    <3> QED BY <2>1, <3>1, <3>2
  <2>2. CASE summaries # {}
    <3>1. Newest \in summaries
      BY <2>2 DEF Newest, ChatInv, VersionsAreGapless
    <3>2. PICK n \in 1..L - KeepRecent : Newest.ids = 1..n
      BY <3>1 DEF ChatInv, SummariesArePrefixes
    <3>3. n \in 0..L
      BY <1>2
    <3> QED BY <2>2, <3>1, <3>2, <3>3 DEF ChatInv, ChatTypes
  <2> QED BY <2>1, <2>2
<1>4. PICK k \in 0..L : Newest.ids = 1..k
  BY <1>3
<1>5. Unsummarized = (k + 1)..L
  BY <1>2, <1>4 DEF Unsummarized
<1>6. Candidates(Unsummarized) = (k + 1)..(L - KeepRecent)
  <2> HIDE DEF L
  <2> QED BY <1>2, <1>4, <1>5, CandidatesAreOlder
<1>7. k + 1 <= L - KeepRecent
  <2>1. k + 1 \in Int /\ L - KeepRecent \in Int
    BY <1>2
  <2>2. Cardinality((k + 1)..(L - KeepRecent)) = IF k + 1 > L - KeepRecent THEN 0
                                                 ELSE L - KeepRecent - (k + 1) + 1
    BY <2>1, FS_Interval
  <2> QED BY <1>1, <1>2, <1>6, <2>1, <2>2
<1> DEFINE n == L - KeepRecent
<1>8. Newest.ids \cup Candidates(Unsummarized) = 1..n /\ n \in 1..n /\ 1..k # 1..n
      /\ 1..k \subseteq 1..n
  <2>1. n \in Nat /\ k \in Nat /\ k < n
    BY <1>2, <1>7
  <2> HIDE DEF n
  <2>2. 1..k \cup (k + 1)..n = 1..n
    BY <2>1
  <2>3. n \in 1..n /\ n \notin 1..k /\ 1..k \subseteq 1..n
    BY <2>1
  <2> QED BY <1>4, <1>6, <2>2, <2>3 DEF n
<1>9. /\ turn'[t].version = Newest.version + 1 /\ turn'[t].ids = 1..n
      /\ \A u \in Turns : u # t => turn'[u] = turn[u]
      /\ turn' \in [Turns -> TurnRows]
  <2> DEFINE row == [turn[t] EXCEPT !.phase = "Summarize", !.version = Newest.version + 1,
                                    !.ids = Newest.ids \cup Candidates(Unsummarized)]
  <2>1. turn[t] \in TurnRows /\ turn \in [Turns -> TurnRows]
    BY DEF ChatInv, ChatTypes
  <2>2. turn' = [turn EXCEPT ![t] = row]
    BY <1>1, <2>1
  <2>3. 1..n \subseteq Nat /\ Newest.version + 1 \in Nat
    BY <1>2, <1>3
  <2>4. row \in TurnRows /\ row.version = Newest.version + 1 /\ row.ids = 1..n
    BY <1>8, <2>1, <2>3 DEF TurnRows, TurnPhases
  <2> HIDE DEF row, n
  <2> QED BY <2>1, <2>2, <2>4
<1>10. ChatTypes'
  BY <1>1, <1>9 DEF ChatInv, ChatTypes
<1>11. DraftsFollow'
  <2> SUFFICES ASSUME NEW u \in Turns, turn'[u].phase = "Summarize"
               PROVE  /\ turn'[u].version # 0
                      /\ \E i \in 1..L - KeepRecent : turn'[u].ids = 1..i
                      /\ turn'[u].version # 1 =>
                           \E before \in summaries : /\ before.version = turn'[u].version - 1
                                                     /\ before.ids \subseteq turn'[u].ids
                                                     /\ before.ids # turn'[u].ids
    BY <1>1 DEF DraftsFollow
  <2>1. CASE u # t
    BY <1>1, <1>9, <2>1 DEF ChatInv, DraftsFollow
  <2>2. CASE u = t
    <3>1. turn'[u].version # 0 /\ turn'[u].version - 1 = Newest.version
      BY <1>3, <1>9, <2>2
    <3>2. turn'[u].version # 1 => Newest \in summaries
      BY <1>3, <1>9, <2>2
    <3>3. \E i \in 1..L - KeepRecent : turn'[u].ids = 1..i
      BY <1>8, <1>9, <2>2
    <3> QED BY <1>4, <1>8, <1>9, <2>2, <3>1, <3>2, <3>3
  <2> QED BY <2>1, <2>2
<1> QED
  BY <1>1, <1>10, <1>11 DEF ChatInv, VersionsAreGapless, SummariesArePrefixes,
                            CitationsAreStored, Answers

\* Whoever stores the next version extends the newest one: the others that have read an
\* older one find their version taken.
LEMMA ChatCreateStep ==
  ASSUME ChatInv, NEW t \in Turns, createSummary(t)
  PROVE  ChatInv'
<1> DEFINE new == [version |-> turn[t].version, ids |-> turn[t].ids]
<1>1. /\ conversation # "GONE" /\ turn[t].phase = "Summarize"
      /\ \A s \in summaries : s.version # turn[t].version
      /\ summaries' = summaries \cup {new}
      /\ turn' = [turn EXCEPT ![t].phase = "Generate", ![t].version = 0, ![t].ids = {}]
      /\ UNCHANGED <<conversation, old, messages, citations, chunks>>
  BY DEF createSummary, ToGenerate, SummaryVersionIsFree
<1>2. /\ new.version = turn[t].version /\ new.ids = turn[t].ids
      /\ new.version \in Nat \ {0} /\ new.ids \in SUBSET Nat
      /\ \E n \in 1..Len(messages) - KeepRecent : new.ids = 1..n
      /\ new.version # 1 =>
           \E before \in summaries : /\ before.version = new.version - 1
                                     /\ before.ids \subseteq new.ids /\ before.ids # new.ids
  BY <1>1 DEF ChatInv, ChatTypes, TurnRows, DraftsFollow
<1> HIDE DEF new
<1>3. \A s \in summaries : s.version \in Nat \ {0} /\ s.version # new.version
  BY <1>1, <1>2 DEF ChatInv, ChatTypes
<1>4. \A s \in summaries : s.version < new.version
  <2> SUFFICES ASSUME NEW s \in summaries, ~(s.version < new.version) PROVE FALSE
    OBVIOUS
  <2>1. new.version \in 1..s.version
    BY <1>2, <1>3
  <2> QED BY <1>3, <2>1 DEF ChatInv, VersionsAreGapless
<1>5. \A s \in summaries : s.ids \subseteq new.ids /\ s.ids # new.ids
  <2> SUFFICES ASSUME NEW s \in summaries PROVE s.ids \subseteq new.ids /\ s.ids # new.ids
    OBVIOUS
  <2>1. new.version # 1
    BY <1>2, <1>3, <1>4
  <2>2. PICK before \in summaries : /\ before.version = new.version - 1
                                    /\ before.ids \subseteq new.ids /\ before.ids # new.ids
    BY <1>2, <2>1
  <2>3. ~(before.version < s.version)
    BY <1>2, <1>3, <1>4, <2>2
  <2>4. s = before \/ s.ids \subseteq before.ids
    BY <2>3 DEF ChatInv, SummariesArePrefixes
  <2>5. s.ids \subseteq before.ids
    BY <2>4
  <2>6. s.ids = new.ids => before.ids = new.ids
    BY <2>2, <2>5
  <2>7. s.ids \subseteq new.ids
    BY <2>2, <2>5
  <2> QED BY <2>2, <2>6, <2>7
<1>6. turn' \in [Turns -> TurnRows] /\ turn'[t].phase # "Summarize"
      /\ \A u \in Turns : u # t => turn'[u] = turn[u]
  <2> DEFINE row == [turn[t] EXCEPT !.phase = "Generate", !.version = 0, !.ids = {}]
  <2>1. turn[t] \in TurnRows /\ turn \in [Turns -> TurnRows]
    BY DEF ChatInv, ChatTypes
  <2>2. turn' = [turn EXCEPT ![t] = row]
    BY <1>1, <2>1
  <2>3. row \in TurnRows /\ row.phase = "Generate"
    BY <2>1 DEF TurnRows, TurnPhases
  <2> HIDE DEF row
  <2> QED BY <2>1, <2>2, <2>3
<1>7. ChatTypes'
  <2>1. new \in [version: Nat \ {0}, ids: SUBSET Nat]
    BY <1>2 DEF new
  <2> QED BY <1>1, <1>6, <2>1 DEF ChatInv, ChatTypes
<1>8. VersionsAreGapless'
  <2>1. ASSUME NEW v \in 1..new.version PROVE \E other \in summaries' : other.version = v
    <3>1. CASE v = new.version
      BY <1>1, <3>1
    <3>2. CASE v # new.version
      <4>1. new.version # 1
        BY <1>2, <3>2
      <4>2. PICK before \in summaries : before.version = new.version - 1
        BY <1>2, <4>1
      <4>3. v \in 1..before.version
        BY <1>2, <3>2, <4>2
      <4> QED BY <1>1, <4>3 DEF ChatInv, VersionsAreGapless
    <3> QED BY <3>1, <3>2
  <2>2. \A s \in summaries : \A v \in 1..s.version : \E other \in summaries' : other.version = v
    BY <1>1 DEF ChatInv, VersionsAreGapless
  <2>3. \A other \in summaries' : other.version <= new.version
    BY <1>1, <1>2, <1>3, <1>4
  <2> QED BY <1>1, <2>1, <2>2, <2>3 DEF VersionsAreGapless
<1>9. SummariesArePrefixes'
  <2> SUFFICES ASSUME NEW s \in summaries'
               PROVE  /\ \E n \in 1..Len(messages) - KeepRecent : s.ids = 1..n
                      /\ s.version > 1 => \E before \in summaries' :
                                            before.version = s.version - 1
                      /\ \A other \in summaries' \ {s} :
                           \/ /\ other.version < s.version
                              /\ other.ids \subseteq s.ids /\ other.ids # s.ids
                           \/ /\ s.version < other.version
                              /\ s.ids \subseteq other.ids /\ s.ids # other.ids
    BY <1>1 DEF SummariesArePrefixes
  <2>1. CASE s = new
    <3>1. \A other \in summaries' \ {s} : other \in summaries
      BY <1>1, <2>1
    <3>2. s.version > 1 => s.version # 1
      BY <1>2, <2>1
    <3> QED BY <1>1, <1>2, <1>4, <1>5, <2>1, <3>1, <3>2
  <2>2. CASE s # new
    <3>1. s \in summaries
      BY <1>1, <2>2
    <3> QED BY <1>1, <1>4, <1>5, <3>1 DEF ChatInv, SummariesArePrefixes
  <2> QED BY <2>1, <2>2
<1>10. DraftsFollow'
  BY <1>1, <1>6 DEF ChatInv, DraftsFollow
<1> QED
  BY <1>1, <1>7, <1>8, <1>9, <1>10 DEF ChatInv, CitationsAreStored, Answers

LEMMA ChatStep == ChatInv /\ [ChatNext]_chatVars => ChatInv'
<1> SUFFICES ASSUME ChatInv, [ChatNext]_chatVars PROVE ChatInv'
  OBVIOUS
<1>0. turn \in [Turns -> TurnRows] /\ \A t \in Turns : turn[t] \in TurnRows
  BY DEF ChatInv, ChatTypes
<1>a. [NewTurn EXCEPT !.phase = "Done"] \in TurnRows
  BY DEF TurnRows, NewTurn, TurnPhases
<1>1. ASSUME NEW t \in Turns, findConversation(t) PROVE ChatInv'
  <2>1. TurnMoves(t)
    BY <1>0, <1>1 DEF findConversation, Go, TurnMoves, TurnPhases, TurnRows
  <2> QED BY <2>1, ChatTurnMoves
<1>2. ASSUME NEW t \in Turns, createUserMessage(t) PROVE ChatInv'
  <2> DEFINE row == [turn[t] EXCEPT !.phase = "Confirm"]
  <2> DEFINE m == [role |-> "USER", offers |-> FALSE]
  <2>1. row \in TurnRows /\ row.phase # "Summarize" /\ m \in Messages
    BY <1>0 DEF TurnPhases, Messages, TurnRows
  <2>2. turn' = [turn EXCEPT ![t] = row] /\ messages' = Append(messages, m)
    BY <1>0, <1>2 DEF createUserMessage, Go
  <2> HIDE DEF row, m
  <2> QED BY <1>2, <2>1, <2>2, ChatMessageStep DEF createUserMessage
<1>3. ASSUME NEW t \in Turns, readConfirmation(t) PROVE ChatInv'
  <2>1. PICK yes \in BOOLEAN :
          turn' = [turn EXCEPT ![t].phase = "Database", ![t].confirmed = yes /\ Offered]
    BY <1>3 DEF readConfirmation
  <2>2. PICK b \in BOOLEAN : b = (yes /\ Offered)
    OBVIOUS
  <2> DEFINE row == [turn[t] EXCEPT !.phase = "Database", !.confirmed = b]
  <2>3. row \in TurnRows /\ row.phase = "Database"
    BY <1>0 DEF TurnPhases, TurnRows
  <2>4. turn' = [turn EXCEPT ![t] = row]
    BY <1>0, <2>1, <2>2
  <2> HIDE DEF row
  <2>5. TurnMoves(t)
    BY <1>0, <1>3, <2>3, <2>4 DEF readConfirmation, TurnMoves
  <2> QED BY <2>5, ChatTurnMoves
<1>4. ASSUME NEW t \in Turns, answerByTool(t) PROVE ChatInv'
  <2>1. PICK offer \in BOOLEAN : turn' = [turn EXCEPT ![t].phase = "Memory", ![t].offers = offer]
    BY <1>4 DEF answerByTool
  <2> DEFINE row == [turn[t] EXCEPT !.phase = "Memory", !.offers = offer]
  <2>3. row \in TurnRows /\ row.phase = "Memory"
    BY <1>0 DEF TurnPhases, TurnRows
  <2>4. turn' = [turn EXCEPT ![t] = row]
    BY <1>0, <2>1
  <2> HIDE DEF row
  <2>5. TurnMoves(t)
    BY <1>0, <1>4, <2>3, <2>4 DEF answerByTool, TurnMoves
  <2> QED BY <2>5, ChatTurnMoves
<1>5. ASSUME NEW t \in Turns, retrieve(t) PROVE ChatInv'
  <2>1. PICK evidence \in SUBSET chunks :
          turn' = [turn EXCEPT ![t].phase = "Memory", ![t].evidence = evidence]
    BY <1>5 DEF retrieve
  <2> DEFINE row == [turn[t] EXCEPT !.phase = "Memory", !.evidence = evidence]
  <2>2. evidence \in SUBSET Chunks
    BY DEF ChatInv, ChatTypes
  <2>3. row \in TurnRows /\ row.phase = "Memory"
    BY <1>0, <2>2 DEF TurnPhases, TurnRows
  <2>4. turn' = [turn EXCEPT ![t] = row]
    BY <1>0, <2>1
  <2> HIDE DEF row
  <2>5. TurnMoves(t)
    BY <1>0, <1>5, <2>3, <2>4 DEF retrieve, TurnMoves
  <2> QED BY <2>5, ChatTurnMoves
<1>6. ASSUME NEW t \in Turns, readSummary(t) PROVE ChatInv'
  <2>1. CASE turn'[t].phase = "Summarize"
    BY <1>6, <2>1, ChatReadStep
  <2>2. CASE turn'[t].phase # "Summarize"
    <3>1. turn' = [turn EXCEPT ![t].phase = "Generate"]
      BY <1>0, <1>6, <2>2 DEF readSummary, Go, TurnRows
    <3> DEFINE row == [turn[t] EXCEPT !.phase = "Generate"]
    <3>3. row \in TurnRows /\ turn' = [turn EXCEPT ![t] = row]
      BY <1>0, <3>1 DEF TurnPhases, TurnRows
    <3> HIDE DEF row
    <3>2. TurnMoves(t)
      BY <1>6, <2>2, <3>3 DEF readSummary, TurnMoves
    <3> QED BY <3>2, ChatTurnMoves
  <2> QED BY <2>1, <2>2
<1>7. ASSUME NEW t \in Turns, createSummary(t) PROVE ChatInv'
  BY <1>7, ChatCreateStep
<1>8. ASSUME NEW t \in Turns, summaryNotGenerated(t) PROVE ChatInv'
  <2> DEFINE row == [turn[t] EXCEPT !.phase = "Generate", !.version = 0, !.ids = {}]
  <2>3. row \in TurnRows /\ row.phase = "Generate"
    BY <1>0 DEF TurnPhases, TurnRows
  <2>4. turn' = [turn EXCEPT ![t] = row]
    BY <1>0, <1>8 DEF summaryNotGenerated, ToGenerate
  <2> HIDE DEF row
  <2>5. TurnMoves(t)
    BY <1>0, <1>8, <2>3, <2>4 DEF summaryNotGenerated, TurnMoves
  <2> QED BY <2>5, ChatTurnMoves
<1>9. ASSUME NEW t \in Turns, generate(t) PROVE ChatInv'
  <2>1. PICK cited \in {turn[t].evidence, {}} :
          turn' = [turn EXCEPT ![t].phase = "Save", ![t].evidence = cited]
    BY <1>9 DEF generate
  <2> DEFINE row == [turn[t] EXCEPT !.phase = "Save", !.evidence = cited]
  <2>2. cited \in SUBSET Chunks
    BY <1>0 DEF TurnRows
  <2>3. row \in TurnRows /\ row.phase = "Save"
    BY <1>0, <2>2 DEF TurnPhases, TurnRows
  <2>4. turn' = [turn EXCEPT ![t] = row]
    BY <1>0, <2>1
  <2> HIDE DEF row
  <2>5. TurnMoves(t)
    BY <1>0, <1>9, <2>3, <2>4 DEF generate, TurnMoves
  <2> QED BY <2>5, ChatTurnMoves
<1>10. ASSUME NEW t \in Turns, saveAnswer(t) PROVE ChatInv'
  <2> DEFINE row == [NewTurn EXCEPT !.phase = "Done"]
  <2> DEFINE m == [role |-> "ASSISTANT", offers |-> turn[t].offers]
  <2>1. row \in TurnRows /\ row.phase # "Summarize" /\ m \in Messages /\ m.role = "ASSISTANT"
    BY <1>0, <1>a DEF Messages, TurnRows, NewTurn
  <2>2. turn' = [turn EXCEPT ![t] = row] /\ messages' = Append(messages, m)
    BY <1>10 DEF saveAnswer, EndTurn
  <2> HIDE DEF row, m
  <2> QED BY <1>10, <2>1, <2>2, ChatMessageStep DEF saveAnswer, Citable
<1>11. ASSUME NEW t \in Turns, turnFails(t) PROVE ChatInv'
  <2> DEFINE row == [NewTurn EXCEPT !.phase = "Done"]
  <2>2. row \in TurnRows /\ row.phase = "Done" /\ turn' = [turn EXCEPT ![t] = row]
    BY <1>a, <1>11 DEF turnFails, EndTurn, NewTurn
  <2> HIDE DEF row
  <2>1. TurnMoves(t)
    BY <1>0, <1>11, <2>2 DEF turnFails, TurnMoves
  <2> QED BY <2>1, ChatTurnMoves
<1>12. ASSUME NEW chunk \in Chunks, removeChunk(chunk) PROVE ChatInv'
  <2>1. ChatTypes'
    BY <1>12 DEF removeChunk, ChatInv, ChatTypes
  <2>2. VersionsAreGapless' /\ SummariesArePrefixes' /\ (conversation' = "GONE" => summaries' = {})
    BY <1>12 DEF removeChunk, ChatInv, VersionsAreGapless, SummariesArePrefixes
  <2>3. DraftsFollow'
    BY <1>12 DEF removeChunk, ChatInv, DraftsFollow
  <2>4. CitationsAreStored'
    BY <1>12 DEF removeChunk, ChatInv, CitationsAreStored, Answers
  <2> QED BY <2>1, <2>2, <2>3, <2>4 DEF ChatInv
<1>13. CASE deleteConversation
  BY <1>13 DEF deleteConversation, ChatInv, ChatTypes, VersionsAreGapless, SummariesArePrefixes,
               DraftsFollow, CitationsAreStored, Answers
<1>14. CASE enforceRetention
  BY <1>14 DEF enforceRetention, ChatInv, ChatTypes, VersionsAreGapless, SummariesArePrefixes,
               DraftsFollow, CitationsAreStored
<1>15. CASE UNCHANGED chatVars
  <2>1. ChatTypes'
    BY <1>15 DEF chatVars, ChatInv, ChatTypes
  <2>2. VersionsAreGapless' /\ SummariesArePrefixes' /\ (conversation' = "GONE" => summaries' = {})
    BY <1>15 DEF chatVars, ChatInv, VersionsAreGapless, SummariesArePrefixes
  <2>3. DraftsFollow'
    BY <1>15 DEF chatVars, ChatInv, DraftsFollow
  <2>4. CitationsAreStored'
    BY <1>15 DEF chatVars, ChatInv, CitationsAreStored, Answers
  <2> QED BY <2>1, <2>2, <2>3, <2>4 DEF ChatInv
<1> QED
  BY <1>1, <1>2, <1>3, <1>4, <1>5, <1>6, <1>7, <1>8, <1>9, <1>10, <1>11, <1>12, <1>13, <1>14,
     <1>15 DEF ChatNext

LEMMA ChatInvariant == ChatSpec => []ChatInv
<1> QED BY ChatTypesInit, ChatStep, PTL DEF ChatSpec

\* However the turns of a conversation overlap, its summaries are numbered without gaps, each
\* covers the messages of the one before and more, and none covers the newest ones.
THEOREM SummariesAreCumulative == ChatSpec => []SummariesArePrefixes
<1>1. ChatInv => SummariesArePrefixes
  BY DEF ChatInv
<1> QED BY <1>1, ChatInvariant, PTL

\* A citation shows text that is stored, whatever was indexed again or deleted while the
\* answer was being written.
THEOREM CitationsStayStored == ChatSpec => []CitationsAreStored
<1>1. ChatInv => CitationsAreStored
  BY DEF ChatInv
<1> QED BY <1>1, ChatInvariant, PTL

-----------------------------------------------------------------------------
(* What the rows of a conversation and of a memory hold. *)

Asked == {t \in Turns : turn[t].phase \notin {"Idle", "Create"}}
Answered == {t \in Turns : turn[t].phase = "Done"}

\* A turn adds its question and its answer, each once.
ChatBounds ==
  /\ old \in BOOLEAN
  /\ Len(messages) <= 2 + Cardinality(Asked) + Cardinality(Answered)
  /\ \A t \in Turns : turn[t].ids \subseteq 1..MaxMessageCount

LEMMA MoreTurns ==
  ASSUME NEW A \in SUBSET Turns, NEW B \in SUBSET Turns, A \subseteq B
  PROVE  /\ Cardinality(A) \in Nat /\ Cardinality(B) \in Nat /\ Cardinality(Turns) \in Nat
         /\ Cardinality(A) <= Cardinality(B) /\ Cardinality(B) <= Cardinality(Turns)
         /\ A # B => Cardinality(A) + 1 <= Cardinality(B)
<1>1. IsFiniteSet(Turns) /\ IsFiniteSet(A) /\ IsFiniteSet(B)
  BY ChatAssumption, FS_Subset
<1>2. Cardinality(A) \in Nat /\ Cardinality(B) \in Nat /\ Cardinality(Turns) \in Nat
  BY <1>1, FS_CardinalityType
<1>3. Cardinality(A) <= Cardinality(B) /\ (Cardinality(A) = Cardinality(B) => A = B)
  BY <1>1, FS_Subset
<1>4. Cardinality(B) <= Cardinality(Turns)
  BY <1>1, ChatAssumption, FS_Subset
<1> QED BY <1>2, <1>3, <1>4

LEMMA MessagesAreBounded ==
  ASSUME ChatInv, ChatBounds
  PROVE  MaxMessageCount \in Nat /\ Len(messages) \in Nat /\ Len(messages) <= MaxMessageCount
<1>1. /\ Cardinality(Asked) \in Nat /\ Cardinality(Asked) <= Cardinality(Turns)
      /\ Cardinality(Answered) \in Nat /\ Cardinality(Answered) <= Cardinality(Turns)
      /\ Cardinality(Turns) \in Nat
  <2>1. Asked \in SUBSET Turns /\ Answered \in SUBSET Turns
    BY DEF Asked, Answered
  <2> QED BY <2>1, MoreTurns
<1>2. Len(messages) \in Nat
  BY DEF ChatInv, ChatTypes
<1> QED BY <1>1, <1>2 DEF ChatBounds, MaxMessageCount

LEMMA ChatBoundsInit == ChatInit => ChatBounds
<1> SUFFICES ASSUME ChatInit PROVE ChatBounds
  OBVIOUS
<1>1. Asked = {} /\ Answered = {}
  BY DEF ChatInit, Asked, Answered, NewTurn
<1>2. Len(messages) <= 2
  <2>1. PICK offers \in BOOLEAN :
          messages \in {<< >>, <<[role |-> "USER", offers |-> FALSE],
                                [role |-> "ASSISTANT", offers |-> offers]>>}
    BY DEF ChatInit
  <2>2. CASE messages = << >>
    BY <2>2
  <2>3. CASE messages = <<[role |-> "USER", offers |-> FALSE],
                          [role |-> "ASSISTANT", offers |-> offers]>>
    BY <2>3
  <2> QED BY <2>1, <2>2, <2>3
<1>3. \A t \in Turns : turn[t].ids = {}
  BY DEF ChatInit, NewTurn
<1>4. Len(messages) \in Nat
  BY ChatTypesInit DEF ChatInv, ChatTypes
<1> QED BY <1>1, <1>2, <1>3, <1>4, FS_EmptySet DEF ChatInit, ChatBounds

\* No turn is taken back, and a message comes with a turn that goes on.
LEMMA TurnsGoOn ==
  ASSUME ChatInv, [ChatNext]_chatVars
  PROVE  /\ Asked \subseteq Asked' /\ Answered \subseteq Answered'
         /\ \/ Len(messages') = Len(messages) \/ Len(messages') = 0
            \/ Len(messages') = Len(messages) + 1 /\ (Asked # Asked' \/ Answered # Answered')
<1>0. turn \in [Turns -> TurnRows] /\ messages \in Seq(Messages) /\ Len(messages) \in Nat
  BY DEF ChatInv, ChatTypes
<1>1. ASSUME UNCHANGED turn \/ (\E t \in Turns : /\ turn' = [turn EXCEPT ![t] = turn'[t]]
                                                 /\ turn[t].phase # "Done"
                                                 /\ \/ turn[t].phase \in {"Idle", "Create"}
                                                    \/ turn'[t].phase \notin {"Idle", "Create"})
      PROVE  Asked \subseteq Asked' /\ Answered \subseteq Answered'
  BY <1>0, <1>1 DEF Asked, Answered
<1>2. ASSUME NEW t \in Turns, createUserMessage(t)
      PROVE  /\ Len(messages') = Len(messages) + 1 /\ Asked # Asked'
  <2>1. messages' = Append(messages, [role |-> "USER", offers |-> FALSE])
    BY <1>2 DEF createUserMessage
  <2>2. t \notin Asked /\ t \in Asked'
    BY <1>0, <1>2 DEF createUserMessage, Go, Asked, TurnRows
  <2> QED BY <1>0, <2>1, <2>2
<1>3. ASSUME NEW t \in Turns, saveAnswer(t)
      PROVE  Len(messages') = Len(messages) + 1 /\ Answered # Answered'
  <2>1. messages' = Append(messages, [role |-> "ASSISTANT", offers |-> turn[t].offers])
    BY <1>3 DEF saveAnswer
  <2>2. t \notin Answered /\ t \in Answered'
    BY <1>0, <1>3 DEF saveAnswer, EndTurn, NewTurn, Answered
  <2> QED BY <1>0, <2>1, <2>2
<1>4. ASSUME NEW t \in Turns,
             \/ findConversation(t) \/ createUserMessage(t) \/ readConfirmation(t)
             \/ answerByTool(t) \/ retrieve(t) \/ readSummary(t) \/ createSummary(t)
             \/ summaryNotGenerated(t) \/ generate(t) \/ saveAnswer(t) \/ turnFails(t)
      PROVE  /\ turn' = [turn EXCEPT ![t] = turn'[t]] /\ turn[t].phase # "Done"
             /\ \/ turn[t].phase \in {"Idle", "Create"}
                \/ turn'[t].phase \notin {"Idle", "Create"}
  <2>1. turn[t] \in TurnRows /\ \A row : [turn EXCEPT ![t] = row][t] = row
    BY <1>0
  <2>2. CASE findConversation(t) \/ createUserMessage(t) \/ readConfirmation(t)
    BY <1>0, <2>1, <2>2 DEF findConversation, createUserMessage, readConfirmation, Go, TurnRows
  <2>3. CASE answerByTool(t) \/ retrieve(t) \/ readSummary(t)
    BY <1>0, <2>1, <2>3 DEF answerByTool, retrieve, readSummary, Go, TurnRows
  <2>4. CASE createSummary(t) \/ summaryNotGenerated(t) \/ generate(t)
    BY <1>0, <2>1, <2>4 DEF createSummary, summaryNotGenerated, ToGenerate, generate, TurnRows
  <2>5. CASE saveAnswer(t) \/ turnFails(t)
    BY <1>0, <2>1, <2>5 DEF saveAnswer, turnFails, EndTurn, NewTurn
  <2> QED BY <1>4, <2>2, <2>3, <2>4, <2>5
<1>5. CASE \E t \in Turns :
             \/ findConversation(t) \/ createUserMessage(t) \/ readConfirmation(t)
             \/ answerByTool(t) \/ retrieve(t) \/ readSummary(t) \/ createSummary(t)
             \/ summaryNotGenerated(t) \/ generate(t) \/ saveAnswer(t) \/ turnFails(t)
  <2>1. PICK t \in Turns :
             \/ findConversation(t) \/ createUserMessage(t) \/ readConfirmation(t)
             \/ answerByTool(t) \/ retrieve(t) \/ readSummary(t) \/ createSummary(t)
             \/ summaryNotGenerated(t) \/ generate(t) \/ saveAnswer(t) \/ turnFails(t)
    BY <1>5
  <2>2. Asked \subseteq Asked' /\ Answered \subseteq Answered'
    BY <1>1, <1>4, <2>1
  <2>3. ~createUserMessage(t) /\ ~saveAnswer(t) => messages' = messages
    BY <2>1 DEF findConversation, readConfirmation, answerByTool, retrieve, readSummary,
                createSummary, summaryNotGenerated, generate, turnFails
  <2> QED BY <1>2, <1>3, <2>2, <2>3
<1>6. CASE (\E chunk \in Chunks : removeChunk(chunk)) \/ deleteConversation
             \/ enforceRetention \/ UNCHANGED chatVars
  <2>1. UNCHANGED turn /\ (messages' = messages \/ messages' = << >>)
    BY <1>6 DEF removeChunk, deleteConversation, enforceRetention, chatVars
  <2>2. Len(<< >>) = 0
    OBVIOUS
  <2> QED BY <1>1, <2>1, <2>2
<1> QED BY <1>5, <1>6 DEF ChatNext

\* What a turn is about to store covers messages there are.
LEMMA DraftsStayBounded ==
  ASSUME ChatInv, ChatInv', ChatBounds, [ChatNext]_chatVars, NEW u \in Turns
  PROVE  turn'[u].ids \subseteq 1..MaxMessageCount
<1>0. turn \in [Turns -> TurnRows] /\ turn[u].ids \subseteq 1..MaxMessageCount
  BY DEF ChatInv, ChatTypes, ChatBounds
<1>1. CASE \E t \in Turns : readSummary(t)
  <2>1. PICK t \in Turns : readSummary(t)
    BY <1>1
  <2>2. CASE u = t /\ turn'[t].phase = "Summarize"
    <3>1. conversation' # "GONE" /\ messages' = messages
      BY <1>0, <2>1, <2>2 DEF readSummary, Go, TurnRows
    <3>2. PICK n \in 1..Len(messages) - KeepRecent : turn'[t].ids = 1..n
      BY <2>2, <3>1 DEF ChatInv, DraftsFollow
    <3>3. KeepRecent \in Nat /\ MaxMessageCount \in Nat /\ Len(messages) \in Nat
          /\ Len(messages) <= MaxMessageCount
      BY ChatAssumption, MessagesAreBounded
    <3>4. 1..n \subseteq 1..MaxMessageCount
      BY <3>2, <3>3
    <3> QED BY <2>2, <3>2, <3>4
  <2>3. CASE u # t \/ turn'[t].phase # "Summarize"
    <3>1. turn'[u].ids = turn[u].ids
      BY <1>0, <2>1, <2>3 DEF readSummary, Go, TurnRows
    <3> QED BY <1>0, <3>1
  <2> QED BY <2>2, <2>3
<1>2. CASE ~\E t \in Turns : readSummary(t)
  <2>1. turn'[u].ids = turn[u].ids \/ turn'[u].ids = {}
    <3>1. CASE UNCHANGED chatVars \/ deleteConversation \/ enforceRetention
               \/ \E chunk \in Chunks : removeChunk(chunk)
      BY <3>1 DEF chatVars, deleteConversation, enforceRetention, removeChunk
    <3>2. ASSUME NEW t \in Turns, findConversation(t) \/ createUserMessage(t)
                                  \/ readConfirmation(t) \/ answerByTool(t) \/ retrieve(t)
          PROVE  turn'[u].ids = turn[u].ids
      BY <1>0, <3>2 DEF findConversation, createUserMessage, readConfirmation, answerByTool,
                        retrieve, Go, TurnRows
    <3>3. ASSUME NEW t \in Turns, createSummary(t) \/ summaryNotGenerated(t) \/ generate(t)
          PROVE  turn'[u].ids = turn[u].ids \/ turn'[u].ids = {}
      BY <1>0, <3>3 DEF createSummary, summaryNotGenerated, ToGenerate, generate, TurnRows
    <3>4. ASSUME NEW t \in Turns, saveAnswer(t) \/ turnFails(t)
          PROVE  turn'[u].ids = turn[u].ids \/ turn'[u].ids = {}
      BY <1>0, <3>4 DEF saveAnswer, turnFails, EndTurn, NewTurn, TurnRows
    <3> QED BY <1>2, <3>1, <3>2, <3>3, <3>4 DEF ChatNext
  <2> QED BY <1>0, <2>1
<1> QED BY <1>1, <1>2

LEMMA ChatBoundsStep == ChatInv /\ ChatInv' /\ ChatBounds /\ [ChatNext]_chatVars => ChatBounds'
<1> SUFFICES ASSUME ChatInv, ChatInv', ChatBounds, [ChatNext]_chatVars PROVE ChatBounds'
  OBVIOUS
<1>1. old' \in BOOLEAN
  BY DEF ChatBounds, ChatNext, chatVars, findConversation, createUserMessage, readConfirmation,
         answerByTool, retrieve, readSummary, createSummary, summaryNotGenerated, generate,
         saveAnswer, turnFails, removeChunk, deleteConversation, enforceRetention
<1>2. Len(messages') <= 2 + Cardinality(Asked') + Cardinality(Answered')
  <2>1. Asked \in SUBSET Turns /\ Answered \in SUBSET Turns
        /\ Asked' \in SUBSET Turns /\ Answered' \in SUBSET Turns
    BY DEF Asked, Answered
  <2>2. Asked \subseteq Asked' /\ Answered \subseteq Answered'
    BY TurnsGoOn
  <2>3. /\ Cardinality(Asked) \in Nat /\ Cardinality(Asked') \in Nat
        /\ Cardinality(Asked) <= Cardinality(Asked')
        /\ Asked # Asked' => Cardinality(Asked) + 1 <= Cardinality(Asked')
    BY <2>1, <2>2, MoreTurns
  <2>4. /\ Cardinality(Answered) \in Nat /\ Cardinality(Answered') \in Nat
        /\ Cardinality(Answered) <= Cardinality(Answered')
        /\ Answered # Answered' => Cardinality(Answered) + 1 <= Cardinality(Answered')
    BY <2>1, <2>2, MoreTurns
  <2>5. \/ Len(messages') = Len(messages) \/ Len(messages') = 0
        \/ Len(messages') = Len(messages) + 1 /\ (Asked # Asked' \/ Answered # Answered')
    BY TurnsGoOn
  <2>6. Len(messages) \in Nat /\ Len(messages) <= 2 + Cardinality(Asked) + Cardinality(Answered)
    BY DEF ChatInv, ChatTypes, ChatBounds
  <2> QED BY <2>3, <2>4, <2>5, <2>6
<1>3. \A u \in Turns : turn'[u].ids \subseteq 1..MaxMessageCount
  BY DraftsStayBounded
<1> QED BY <1>1, <1>2, <1>3 DEF ChatBounds, MaxMessageCount

\* The rows of a conversation, and that no turn stores more than its question and its answer.
THEOREM ChatTypeCorrect == ChatSpec => []ChatTypeOK
<1>1. ChatInv /\ ChatBounds => ChatTypeOK
  <2> SUFFICES ASSUME ChatInv, ChatBounds PROVE ChatTypeOK
    OBVIOUS
  <2>1. MaxMessageCount \in Nat /\ Len(messages) \in Nat /\ Len(messages) <= MaxMessageCount
    BY MessagesAreBounded
  <2>2. DOMAIN messages = 1..Len(messages) /\ DOMAIN messages \subseteq 1..MaxMessageCount
    BY <2>1 DEF ChatInv, ChatTypes
  <2>3. citations \subseteq (1..MaxMessageCount) \X Chunks
    BY <2>2 DEF ChatInv, ChatTypes, CitationsAreStored, Answers
  <2>4. summaries \subseteq [version: Nat \ {0}, ids: SUBSET (1..MaxMessageCount)]
    <3> SUFFICES ASSUME NEW s \in summaries
                 PROVE  s \in [version: Nat \ {0}, ids: SUBSET (1..MaxMessageCount)]
      OBVIOUS
    <3>1. PICK n \in 1..Len(messages) - KeepRecent : s.ids = 1..n
      BY DEF ChatInv, SummariesArePrefixes
    <3>2. KeepRecent \in Nat
      BY ChatAssumption
    <3>3. 1..n \subseteq 1..MaxMessageCount
      BY <2>1, <3>1, <3>2
    <3>4. s \in [version: Nat \ {0}, ids: SUBSET Nat]
      BY DEF ChatInv, ChatTypes
    <3> QED BY <3>1, <3>3, <3>4
  <2>5. \A t \in Turns : turn[t] \in TurnRows
    BY DEF ChatInv, ChatTypes
  <2> QED BY <2>1, <2>3, <2>4, <2>5 DEF ChatInv, ChatTypes, ChatBounds, ChatTypeOK, TurnRows, Messages
<1> QED
  BY <1>1, ChatInvariant, ChatBoundsInit, ChatBoundsStep, PTL DEF ChatSpec

\* What is remembered of a user and what save requests and prompts have read.
THEOREM MemoryTypeCorrect == MemorySpec => []MemoryTypeOK
<1>1. MemoryInv => MemoryTypeOK
  BY DEF MemoryInv, MemoryTypes, MemoryTypeOK, SaveRows, PromptRows
<1> QED BY <1>1, MemoryInvariant, PTL

-----------------------------------------------------------------------------
(* MetadataContext: least numbers, and the sum of a function over a finite set. *)

LEMMA NatHasLeast ==
  ASSUME NEW T \in SUBSET Nat, T # {}
  PROVE  \E t \in T : \A u \in T : t <= u
<1>1. PICK t \in T : \A u \in T : ~(<<u, t>> \in OpToRel(<, Nat))
  BY NatLessThanWellFounded, WFMin
<1>2. OpToRel(<, Nat) = {p \in Nat \X Nat : p[1] < p[2]}
  BY DEF OpToRel
<1>3. \A u \in T : ~(u < t)
  BY <1>1, <1>2
<1> QED BY <1>3
-----------------------------------------------------------------------------
(* Sums over a set of positions, as MapThenSumSet takes them: one member   *)
(* after the other, in an order nobody knows.  What holds of them is shown *)
(* by way of a smallest set for which it does not.                         *)

LEMMA SmallestSet ==
  ASSUME NEW S, IsFiniteSet(S), NEW B \in SUBSET (SUBSET S), B # {}
  PROVE  \E s \in B : \A t \in SUBSET s : t # s => t \notin B
<1>1. \A s \in B : IsFiniteSet(s) /\ Cardinality(s) \in Nat
  BY FS_Subset, FS_CardinalityType
<1> DEFINE C == {Cardinality(s) : s \in B}
<1>2. C \in SUBSET Nat /\ C # {}
  BY <1>1
<1>3. PICK n \in C : \A m \in C : n <= m
  <2> HIDE DEF C
  <2> QED BY <1>2, NatHasLeast
<1>4. PICK s \in B : n = Cardinality(s)
  OBVIOUS
<1>5. ASSUME NEW t \in SUBSET s, t # s, t \in B PROVE FALSE
  <2>1. Cardinality(t) <= Cardinality(s) /\ Cardinality(t) # Cardinality(s)
    BY <1>1, <1>4, <1>5, FS_Subset
  <2>2. Cardinality(s) <= Cardinality(t)
    BY <1>3, <1>4, <1>5
  <2> QED BY <1>1, <1>4, <1>5, <2>1, <2>2
<1> QED BY <1>4, <1>5

Pick(s) == CHOOSE x \in s : TRUE
TotalStep(g, f, s) == IF s = {} THEN 0 ELSE g[Pick(s)] + f[s \ {Pick(s)}]
IsTotal(g, S, f) == f = [s \in SUBSET S |-> TotalStep(g, f, s)]
Total(g, S) == (CHOOSE f : IsTotal(g, S, f))[S]

LEMMA PickIsMember ==
  ASSUME NEW s, s # {}
  PROVE  Pick(s) \in s
BY DEF Pick

LEMMA TotalExists ==
  ASSUME NEW S, IsFiniteSet(S), NEW g
  PROVE  \E f : IsTotal(g, S, f)
<1>0. \A s \in SUBSET S : IsFiniteSet(s) /\ Cardinality(s) \in Nat
  BY FS_Subset, FS_CardinalityType
<1> DEFINE Good(n) == \E f : \A s \in SUBSET S :
                        Cardinality(s) <= n => f[s] = TotalStep(g, f, s)
<1>1. Good(0)
  <2> DEFINE f == [s \in SUBSET S |-> 0]
  <2>1. ASSUME NEW s \in SUBSET S, Cardinality(s) <= 0 PROVE s = {}
    BY <1>0, <2>1, FS_EmptySet
  <2>2. \A s \in SUBSET S : Cardinality(s) <= 0 => f[s] = TotalStep(g, f, s)
    BY <2>1 DEF TotalStep
  <2> QED BY <2>2
<1>2. ASSUME NEW n \in Nat, Good(n) PROVE Good(n + 1)
  <2>1. PICK f : \A s \in SUBSET S : Cardinality(s) <= n => f[s] = TotalStep(g, f, s)
    BY <1>2
  <2> DEFINE h == [s \in SUBSET S |-> TotalStep(g, f, s)]
  <2>2. \A s \in SUBSET S : h[s] = TotalStep(g, f, s)
    OBVIOUS
  <2> HIDE DEF h
  <2>3. ASSUME NEW s \in SUBSET S, Cardinality(s) <= n + 1 PROVE h[s] = TotalStep(g, h, s)
    <3>1. CASE s = {}
      BY <2>2, <3>1 DEF TotalStep
    <3>2. CASE s # {}
      <4> DEFINE r == s \ {Pick(s)}
      <4>1. r \in SUBSET S /\ Pick(s) \in s
        BY <3>2, PickIsMember
      <4>2. Cardinality(r) = Cardinality(s) - 1
        BY <1>0, <4>1, FS_RemoveElement
      <4>3. Cardinality(r) <= n
        BY <1>0, <2>3, <4>2
      <4>4. h[r] = f[r]
        BY <2>1, <2>2, <4>1, <4>3
      <4> QED BY <2>2, <4>4 DEF TotalStep
    <3> QED BY <3>1, <3>2
  <2> QED BY <2>3
<1> DEFINE Bad == {n \in Nat : ~Good(n)}
<1>3. Bad = {}
  <2> SUFFICES ASSUME Bad # {} PROVE FALSE
    OBVIOUS
  <2> HIDE DEF Good
  <2>1. PICK n \in Bad : \A m \in Bad : n <= m
    BY NatHasLeast
  <2>2. n # 0 /\ n \in Nat /\ ~Good(n)
    BY <1>1
  <2>3. n - 1 \in Nat /\ ~(n <= n - 1) /\ n - 1 + 1 = n
    BY <2>2
  <2>4. Good(n - 1)
    BY <2>1, <2>3
  <2> QED BY <1>2, <2>2, <2>3, <2>4
<1>4. Good(Cardinality(S))
  <2> HIDE DEF Good
  <2> QED BY <1>0, <1>3
<1>5. PICK f : \A s \in SUBSET S : Cardinality(s) <= Cardinality(S) => f[s] = TotalStep(g, f, s)
  BY <1>4
<1>6. \A s \in SUBSET S : f[s] = TotalStep(g, f, s)
  BY <1>5, FS_Subset
<1> DEFINE h == [s \in SUBSET S |-> f[s]]
<1>7. ASSUME NEW s \in SUBSET S PROVE TotalStep(g, f, s) = TotalStep(g, h, s)
  <2>1. h[s \ {Pick(s)}] = f[s \ {Pick(s)}]
    OBVIOUS
  <2> QED BY <2>1 DEF TotalStep
<1>8. h = [s \in SUBSET S |-> TotalStep(g, h, s)]
  <2>1. h = [s \in SUBSET S |-> TotalStep(g, f, s)]
    BY <1>6
  <2> HIDE DEF h
  <2> QED BY <1>7, <2>1
<1> QED BY <1>8 DEF IsTotal

LEMMA TotalIsUnique ==
  ASSUME NEW S, IsFiniteSet(S), NEW T \in SUBSET S, NEW g, NEW f, NEW h,
         IsTotal(g, S, f), IsTotal(g, T, h), NEW s \in SUBSET T
  PROVE  f[s] = h[s]
<1> DEFINE B == {t \in SUBSET T : f[t] # h[t]}
<1> SUFFICES ASSUME B # {} PROVE FALSE
  OBVIOUS
<1>1. IsFiniteSet(T) /\ B \in SUBSET (SUBSET T)
  BY FS_Subset
<1>2. PICK t \in B : \A u \in SUBSET t : u # t => u \notin B
  <2> HIDE DEF B
  <2> QED BY <1>1, SmallestSet
<1>3. t \in SUBSET T /\ t \in SUBSET S /\ f[t] # h[t]
  OBVIOUS
<1>4. f[t] = TotalStep(g, f, t) /\ h[t] = TotalStep(g, h, t)
  BY <1>3 DEF IsTotal
<1>5. t # {}
  BY <1>3, <1>4 DEF TotalStep
<1>6. Pick(t) \in t
  BY <1>5, PickIsMember
<1>7. f[t \ {Pick(t)}] = h[t \ {Pick(t)}]
  BY <1>2, <1>3, <1>6
<1> QED BY <1>3, <1>4, <1>7 DEF TotalStep

LEMMA TotalIsOne ==
  ASSUME NEW S, IsFiniteSet(S), NEW g, NEW f, NEW h, IsTotal(g, S, f), IsTotal(g, S, h)
  PROVE  f[S] = h[S]
<1>1. ASSUME NEW T \in SUBSET S, T = S PROVE f[T] = h[T]
  <2>1. IsTotal(g, T, h)
    BY <1>1
  <2>2. \A s \in SUBSET T : f[s] = h[s]
    BY <2>1, TotalIsUnique
  <2> QED BY <2>2
<1> QED BY <1>1

LEMMA TotalUnfolds ==
  ASSUME NEW S, IsFiniteSet(S), NEW g
  PROVE  /\ S = {} => Total(g, S) = 0
         /\ S # {} => /\ Pick(S) \in S
                      /\ Total(g, S) = g[Pick(S)] + Total(g, S \ {Pick(S)})
<1> DEFINE f == CHOOSE f : IsTotal(g, S, f)
<1> DEFINE T == S \ {Pick(S)}
<1> DEFINE h == CHOOSE h : IsTotal(g, T, h)
<1>1. T \in SUBSET S /\ IsFiniteSet(T)
  BY FS_Subset
<1>2. IsTotal(g, S, f)
  BY TotalExists
<1>3. IsTotal(g, T, h)
  <2> HIDE DEF T
  <2> QED BY <1>1, TotalExists
<1>4. Total(g, S) = f[S] /\ Total(g, T) = h[T]
  BY DEF Total
<1> HIDE DEF f, h
<1>5. f[T] = h[T]
  <2> HIDE DEF T
  <2> QED BY <1>1, <1>2, <1>3, TotalIsUnique
<1>6. f[S] = TotalStep(g, f, S)
  BY <1>2 DEF IsTotal
<1> QED BY <1>4, <1>5, <1>6, PickIsMember DEF TotalStep

LEMMA TotalIsNat ==
  ASSUME NEW S, IsFiniteSet(S), NEW g, \A x \in S : g[x] \in Nat
  PROVE  Total(g, S) \in Nat
<1> DEFINE B == {s \in SUBSET S : Total(g, s) \notin Nat}
<1> SUFFICES ASSUME B # {} PROVE FALSE
  OBVIOUS
<1>1. PICK s \in B : \A t \in SUBSET s : t # s => t \notin B
  <2>1. B \in SUBSET (SUBSET S)
    OBVIOUS
  <2> HIDE DEF B
  <2> QED BY <2>1, SmallestSet
<1>2. s \in SUBSET S /\ Total(g, s) \notin Nat /\ IsFiniteSet(s)
  BY FS_Subset
<1>3. /\ s = {} => Total(g, s) = 0
      /\ s # {} => Pick(s) \in s /\ Total(g, s) = g[Pick(s)] + Total(g, s \ {Pick(s)})
  BY <1>2, TotalUnfolds
<1>4. s # {}
  BY <1>2, <1>3
<1>5. Total(g, s \ {Pick(s)}) \in Nat /\ g[Pick(s)] \in Nat
  BY <1>1, <1>2, <1>3, <1>4
<1> QED BY <1>2, <1>3, <1>4, <1>5

\* The order does not matter: any member may be taken out first.
LEMMA TotalWithout ==
  ASSUME NEW S, IsFiniteSet(S), NEW g, \A x \in S : g[x] \in Nat, NEW x \in S
  PROVE  Total(g, S) = g[x] + Total(g, S \ {x})
<1> DEFINE B == {s \in SUBSET S : \E y \in s : Total(g, s) # g[y] + Total(g, s \ {y})}
<1> SUFFICES ASSUME B # {} PROVE FALSE
  OBVIOUS
<1>1. PICK s \in B : \A t \in SUBSET s : t # s => t \notin B
  <2>1. B \in SUBSET (SUBSET S)
    OBVIOUS
  <2> HIDE DEF B
  <2> QED BY <2>1, SmallestSet
<1>2. s \in SUBSET S /\ IsFiniteSet(s)
  BY FS_Subset
<1>3. PICK y \in s : Total(g, s) # g[y] + Total(g, s \ {y})
  OBVIOUS
<1> DEFINE c == Pick(s)
<1>4. c \in s /\ Total(g, s) = g[c] + Total(g, s \ {c})
  BY <1>2, <1>3, TotalUnfolds
<1> HIDE DEF c
<1>5. c # y
  BY <1>3, <1>4
<1>6. Total(g, s \ {c}) = g[y] + Total(g, (s \ {c}) \ {y})
  BY <1>1, <1>2, <1>4, <1>5
<1>7. Total(g, s \ {y}) = g[c] + Total(g, (s \ {y}) \ {c})
  BY <1>1, <1>2, <1>3, <1>4, <1>5
<1>8. (s \ {c}) \ {y} = (s \ {y}) \ {c}
  OBVIOUS
<1>9. Total(g, (s \ {c}) \ {y}) \in Nat /\ g[c] \in Nat /\ g[y] \in Nat
  <2>1. IsFiniteSet((s \ {c}) \ {y})
    BY <1>2, FS_Subset
  <2> QED BY <1>2, <1>4, <2>1, TotalIsNat
<1> QED BY <1>3, <1>4, <1>6, <1>7, <1>8, <1>9

LEMMA TotalIsMonotone ==
  ASSUME NEW S, IsFiniteSet(S), NEW g, NEW h,
         \A x \in S : g[x] \in Nat /\ h[x] \in Nat /\ h[x] <= g[x]
  PROVE  Total(h, S) <= Total(g, S)
<1> DEFINE B == {s \in SUBSET S : ~(Total(h, s) <= Total(g, s))}
<1> SUFFICES ASSUME B # {} PROVE FALSE
  OBVIOUS
<1>1. PICK s \in B : \A t \in SUBSET s : t # s => t \notin B
  <2>1. B \in SUBSET (SUBSET S)
    OBVIOUS
  <2> HIDE DEF B
  <2> QED BY <2>1, SmallestSet
<1>2. s \in SUBSET S /\ IsFiniteSet(s) /\ ~(Total(h, s) <= Total(g, s))
  BY FS_Subset
<1>3. /\ s = {} => Total(h, s) = 0 /\ Total(g, s) = 0
      /\ s # {} => /\ Pick(s) \in s
                   /\ Total(h, s) = h[Pick(s)] + Total(h, s \ {Pick(s)})
                   /\ Total(g, s) = g[Pick(s)] + Total(g, s \ {Pick(s)})
  BY <1>2, TotalUnfolds
<1>4. s # {}
  BY <1>2, <1>3
<1> DEFINE r == s \ {Pick(s)}
<1>5. r \in SUBSET s /\ r # s /\ IsFiniteSet(r)
  BY <1>2, <1>3, <1>4, FS_Subset
<1>6. Total(h, r) <= Total(g, r)
  BY <1>1, <1>2, <1>5
<1>7. Total(h, r) \in Nat /\ Total(g, r) \in Nat
  BY <1>2, <1>5, TotalIsNat
<1>8. g[Pick(s)] \in Nat /\ h[Pick(s)] \in Nat /\ h[Pick(s)] <= g[Pick(s)]
  BY <1>2, <1>3, <1>4
<1> HIDE DEF r
<1> QED BY <1>2, <1>3, <1>4, <1>6, <1>7, <1>8 DEF r

-----------------------------------------------------------------------------
(* MetadataContext: the ranking of the tables. *)

SelectionOK ==
  /\ input \in [columns: [SelectedTables -> ColumnCounts], rows: [SelectedTables -> RowCounts],
                relevant: RelevantTables, keys: ForeignKeys]
  /\ limits \in [tables: MaxTablesLimits, characters: CharacterLimits]

LEMMA ScoreIsNat ==
  ASSUME SelectionOK, NEW t
  PROVE  Score(t) \in Nat
<1>1. IsFiniteSet(input.keys)
  BY ContextAssumption DEF SelectionOK
<1>2. {k \in input.keys : k[1] = t} \in SUBSET input.keys
      /\ {k \in input.keys : k[2] = t} \in SUBSET input.keys
  OBVIOUS
<1>3. RelationshipDegree(t) \in Nat
  <2>1. /\ Cardinality({k \in input.keys : k[1] = t}) \in Nat
        /\ Cardinality({k \in input.keys : k[2] = t}) \in Nat
    BY <1>1, <1>2, FS_Subset, FS_CardinalityType
  <2> QED BY <2>1 DEF RelationshipDegree
<1> QED BY <1>3 DEF Score

\* The ranking is a total order.
LEMMA RankIsTotal ==
  ASSUME SelectionOK
  PROVE  \A t, u, v \in SelectedTables :
           /\ ~Outranks(t, t)
           /\ t # u => Outranks(t, u) \/ Outranks(u, t)
           /\ Outranks(t, u) /\ Outranks(u, v) => Outranks(t, v)
<1> SUFFICES ASSUME NEW t \in SelectedTables, NEW u \in SelectedTables, NEW v \in SelectedTables
             PROVE  /\ ~Outranks(t, t)
                    /\ t # u => Outranks(t, u) \/ Outranks(u, t)
                    /\ Outranks(t, u) /\ Outranks(u, v) => Outranks(t, v)
  OBVIOUS
<1>1. Score(t) \in Nat /\ Score(u) \in Nat /\ Score(v) \in Nat
  BY ScoreIsNat
<1>2. t \in Nat /\ u \in Nat /\ v \in Nat
  BY ContextAssumption
<1> QED BY <1>1, <1>2 DEF Outranks

LEMMA OneIsFirst ==
  ASSUME SelectionOK, NEW S \in SUBSET SelectedTables, S # {}
  PROVE  \E x \in S : \A y \in S \ {x} : Outranks(x, y)
<1> DEFINE Above(x) == {y \in S : Outranks(y, x)}
<1> DEFINE B == {Above(x) : x \in S}
<1>1. IsFiniteSet(S)
  BY ContextAssumption, FS_Subset
<1>2. PICK s \in B : \A t \in SUBSET s : t # s => t \notin B
  <2>1. B \in SUBSET (SUBSET S) /\ B # {}
    OBVIOUS
  <2> HIDE DEF B
  <2> QED BY <1>1, <2>1, SmallestSet
<1>3. PICK x \in S : s = Above(x)
  OBVIOUS
<1>4. ASSUME NEW y \in s PROVE FALSE
  <2>1. y \in S /\ Outranks(y, x)
    BY <1>3
  <2>2. \A z \in Above(y) : z \in Above(x)
    BY <2>1, RankIsTotal
  <2>3. y \notin Above(y)
    BY <2>1, RankIsTotal
  <2>4. Above(y) \in SUBSET s /\ Above(y) # s /\ Above(y) \in B
    BY <1>3, <1>4, <2>1, <2>2, <2>3
  <2> QED BY <1>2, <2>4
<1>5. ASSUME NEW y \in S \ {x} PROVE Outranks(x, y)
  <2>1. ~Outranks(y, x)
    BY <1>3, <1>4
  <2> QED BY <2>1, RankIsTotal
<1> QED BY <1>5

Ranks(ranked, n, S) ==
  /\ ranked \in [1..n -> S]
  /\ \A i, j \in 1..n : i < j => Outranks(ranked[i], ranked[j])
  /\ \A x \in S : \E i \in 1..n : ranked[i] = x

LEMMA RankingExists ==
  ASSUME SelectionOK
  PROVE  \E n \in Nat : \E ranked : Ranks(ranked, n, SelectedTables)
<1> DEFINE B == {S \in SUBSET SelectedTables : ~\E n \in Nat : \E ranked : Ranks(ranked, n, S)}
<1> SUFFICES ASSUME B # {} PROVE FALSE
  OBVIOUS
<1>1. PICK S \in B : \A T \in SUBSET S : T # S => T \notin B
  <2>1. B \in SUBSET (SUBSET SelectedTables)
    OBVIOUS
  <2> HIDE DEF B
  <2> QED BY <2>1, ContextAssumption, SmallestSet
<1>2. S \in SUBSET SelectedTables /\ \A n \in Nat : ~\E ranked : Ranks(ranked, n, S)
  OBVIOUS
<1>3. S # {}
  <2> SUFFICES ASSUME S = {} PROVE FALSE
    OBVIOUS
  <2> DEFINE none == [i \in 1..0 |-> 0]
  <2>1. none \in [1..0 -> S]
    OBVIOUS
  <2>2. \A i \in 1..0 : FALSE
    OBVIOUS
  <2>3. Ranks(none, 0, S)
    BY <2>1, <2>2 DEF Ranks
  <2> QED BY <1>2, <2>3
<1>4. PICK x \in S : \A y \in S \ {x} : Outranks(x, y)
  BY <1>2, <1>3, OneIsFirst
<1> DEFINE T == S \ {x}
<1>5. PICK n \in Nat : \E ranked : Ranks(ranked, n, T)
  BY <1>1, <1>2
<1>r. PICK r : Ranks(r, n, T)
  BY <1>5
<1> HIDE DEF T
<1> DEFINE q == [i \in 1..(n + 1) |-> IF i = 1 THEN x ELSE r[i - 1]]
<1>6. /\ r \in [1..n -> T] /\ \A i, j \in 1..n : i < j => Outranks(r[i], r[j])
      /\ \A y \in T : \E i \in 1..n : r[i] = y
  BY <1>r DEF Ranks
<1>7. \A i \in 1..(n + 1) : i # 1 => i - 1 \in 1..n
  OBVIOUS
<1>8. /\ q \in [1..(n + 1) -> S]
      /\ \A i \in 1..(n + 1) : q[i] = IF i = 1 THEN x ELSE r[i - 1]
  BY <1>6, <1>7 DEF T
<1> HIDE DEF q
<1>9. ASSUME NEW i \in 1..(n + 1), NEW j \in 1..(n + 1), i < j PROVE Outranks(q[i], q[j])
  <2>1. j # 1 /\ q[j] = r[j - 1] /\ j - 1 \in 1..n
    BY <1>7, <1>8, <1>9
  <2>2. CASE i = 1
    BY <1>4, <1>6, <1>8, <2>1, <2>2 DEF T
  <2>3. CASE i # 1
    <3>1. i - 1 \in 1..n /\ i - 1 < j - 1 /\ q[i] = r[i - 1]
      BY <1>7, <1>8, <1>9, <2>3
    <3> QED BY <1>6, <2>1, <3>1
  <2> QED BY <2>2, <2>3
<1>10. ASSUME NEW y \in S PROVE \E i \in 1..(n + 1) : q[i] = y
  <2>1. CASE y = x
    <3>1. 1 \in 1..(n + 1)
      OBVIOUS
    <3> QED BY <1>8, <2>1, <3>1
  <2>2. CASE y # x
    <3>1. PICK i \in 1..n : r[i] = y
      BY <1>6, <2>2 DEF T
    <3>2. i + 1 \in 1..(n + 1) /\ i + 1 # 1 /\ i + 1 - 1 = i
      OBVIOUS
    <3>3. q[i + 1] = r[i]
      BY <1>8, <3>2
    <3> QED BY <3>1, <3>2, <3>3
  <2> QED BY <2>1, <2>2
<1>11. Ranks(q, n + 1, S) /\ n + 1 \in Nat
  BY <1>8, <1>9, <1>10 DEF Ranks
<1> QED BY <1>2, <1>11

\* Every table has its place, the better one first.
LEMMA TablesAreRanked ==
  ASSUME SelectionOK
  PROVE  /\ RankedTables \in Seq(SelectedTables)
         /\ Len(RankedTables) \in Nat /\ Len(RankedTables) >= 1
         /\ \A i, j \in 1..Len(RankedTables) : i < j => Outranks(RankedTables[i], RankedTables[j])
         /\ \A i, j \in 1..Len(RankedTables) : RankedTables[i] = RankedTables[j] => i = j
         /\ \A t \in SelectedTables : \E i \in 1..Len(RankedTables) : RankedTables[i] = t
<1> DEFINE N == Cardinality(SelectedTables)
<1>1. N \in Nat /\ N # 0
  BY ContextAssumption, FS_CardinalityType, FS_EmptySet
<1>n. PICK n \in Nat : \E ranked : Ranks(ranked, n, SelectedTables)
  BY RankingExists
<1>2. PICK r : Ranks(r, n, SelectedTables)
  BY <1>n
<1>3. r \in [1..n -> SelectedTables] /\ \A i, j \in 1..n : i # j => r[i] # r[j]
  <2>1. r \in [1..n -> SelectedTables]
    BY <1>2 DEF Ranks
  <2>2. ASSUME NEW i \in 1..n, NEW j \in 1..n, i # j PROVE r[i] # r[j]
    <3>1. Outranks(r[i], r[j]) \/ Outranks(r[j], r[i])
      BY <1>2, <2>2 DEF Ranks
    <3> QED BY <2>1, <3>1, RankIsTotal
  <2> QED BY <2>1, <2>2
<1>4. n = N
  <2>1. r \in Surjection(1..n, SelectedTables) /\ r \in Injection(1..n, SelectedTables)
    BY <1>2, <1>3 DEF Ranks, Surjection, Injection, IsInjective
  <2>2. IsFiniteSet(1..n) /\ Cardinality(1..n) = n
    <3>1. 1 \in Int /\ n \in Int /\ n >= 0
      OBVIOUS
    <3>2. IsFiniteSet(1..n) /\ Cardinality(1..n) = IF 1 > n THEN 0 ELSE n - 1 + 1
      BY <3>1, FS_Interval
    <3> QED BY <3>1, <3>2
  <2> QED BY <2>1, <2>2, FS_Surjection
<1> DEFINE Sorted(s) == \A i, j \in DOMAIN s : i < j => Outranks(s[i], s[j])
<1>5. r \in SetToSeqs(SelectedTables) /\ Sorted(r)
  <2>1. r \in SetToSeqs(SelectedTables)
    BY <1>3, <1>4 DEF SetToSeqs
  <2> QED BY <1>2, <1>3, <2>1 DEF Ranks
<1>6. RankedTables \in SetToSeqs(SelectedTables) /\ Sorted(RankedTables)
  BY <1>5 DEF RankedTables
<1>7. RankedTables \in [1..N -> SelectedTables]
      /\ \A i, j \in 1..N : i # j => RankedTables[i] # RankedTables[j]
  BY <1>6 DEF SetToSeqs
<1>8. RankedTables \in Seq(SelectedTables) /\ Len(RankedTables) = N
      /\ DOMAIN RankedTables = 1..N
  <2> HIDE DEF N
  <2> QED BY <1>1, <1>7
<1>9. \A t \in SelectedTables : \E i \in 1..N : RankedTables[i] = t
  <2>1. RankedTables \in Injection(1..N, SelectedTables)
    BY <1>7 DEF Injection, IsInjective
  <2>2. Cardinality(1..N) = N
    <3> HIDE DEF N
    <3>1. 1 \in Int /\ N \in Int
      BY <1>1
    <3>2. Cardinality(1..N) = IF 1 > N THEN 0 ELSE N - 1 + 1
      BY <3>1, FS_Interval
    <3> QED BY <1>1, <3>2
  <2>3. RankedTables \in Surjection(1..N, SelectedTables)
    BY <2>1, <2>2, ContextAssumption, FS_Injection
  <2> QED BY <2>3 DEF Surjection
<1> QED
  <2> HIDE DEF N
  <2> QED BY <1>1, <1>6, <1>7, <1>8, <1>9

-----------------------------------------------------------------------------
(* The serialized length. *)

TableRows == [name: SelectedTables, columns: Nat, rows: Nat, omitted: Nat]
Contexts == [tables: Seq(TableRows), relationships: SUBSET input.keys,
             omittedTables: Seq(SelectedTables), omittedColumns: SUBSET SelectedTables,
             included: Nat, warnings: Nat]

\* What a table takes, and what all of them take.
Piece(table) ==
  Weight["table"] + Weight["column"] * table.columns + Weight["row"] * table.rows
Sizes(tables) == [i \in DOMAIN tables |-> Piece(tables[i])]
SizeStep(tables, f, s) ==
  IF s = {} THEN 0
  ELSE Piece(tables[CHOOSE x \in s : TRUE]) + f[s \ {CHOOSE x \in s : TRUE}]
TablesLength(c) ==
  MapThenSumSet(LAMBDA i : Weight["table"] + Weight["column"] * c.tables[i].columns
                             + Weight["row"] * c.tables[i].rows, DOMAIN c.tables)

LEMMA LengthHasParts ==
  ASSUME NEW c
  PROVE  LengthOf(c) = Weight["base"] + TablesLength(c)
                       + Weight["relationship"] * Cardinality(c.relationships)
                       + Weight["warning"] * c.warnings
                       + Weight["name"] * Len(c.omittedTables)
                       + Weight["columnEntry"] * Cardinality(c.omittedColumns)
BY DEF LengthOf, TablesLength

LEMMA LengthIsChosen ==
  ASSUME NEW c
  PROVE  TablesLength(c) =
           (CHOOSE f : f = [s \in SUBSET DOMAIN c.tables |-> SizeStep(c.tables, f, s)])[DOMAIN c.tables]
BY DEF TablesLength, MapThenSumSet, MapThenFoldSet, SizeStep, Piece

LEMMA LengthIsTotal ==
  ASSUME NEW c, c.tables \in Seq(TableRows)
  PROVE  TablesLength(c) = Total(Sizes(c.tables), DOMAIN c.tables)
<1> DEFINE D == DOMAIN c.tables
<1> DEFINE g == Sizes(c.tables)
<1> DEFINE IsIt(f) == f = [s \in SUBSET D |-> SizeStep(c.tables, f, s)]
<1> DEFINE f == CHOOSE f : IsIt(f)
<1> DEFINE h == CHOOSE h : IsTotal(g, D, h)
<1>1. IsFiniteSet(D)
  <2>1. D = 1..Len(c.tables) /\ Len(c.tables) \in Int /\ 1 \in Int
    OBVIOUS
  <2> QED BY <2>1, FS_Interval
<1>2. \A e : \A s \in SUBSET D : SizeStep(c.tables, e, s) = TotalStep(g, e, s)
  BY DEF SizeStep, TotalStep, Pick, Sizes
<1>3. \A e : IsIt(e) <=> IsTotal(g, D, e)
  BY <1>2 DEF IsTotal
<1>4. \E e : IsTotal(g, D, e)
  <2> HIDE DEF D, g
  <2> QED BY <1>1, TotalExists
<1>5. IsIt(f) /\ IsTotal(g, D, h)
  <2> HIDE DEF IsIt, D, g
  <2> QED BY <1>3, <1>4
<1>6. IsTotal(g, D, f)
  BY <1>3, <1>5
<1> HIDE DEF IsIt
<1>7. TablesLength(c) = f[D] /\ Total(g, D) = h[D]
  BY LengthIsChosen DEF Total, IsIt
<1> HIDE DEF f, h, D, g
<1>8. f[D] = h[D]
  BY <1>1, <1>5, <1>6, TotalIsOne
<1> QED BY <1>7, <1>8 DEF D, g

LEMMA PieceIsNat ==
  ASSUME NEW table \in TableRows
  PROVE  Piece(table) \in Nat /\ Weight["table"] <= Piece(table) /\ Weight["table"] \in Nat
<1>1. /\ table.columns \in Nat /\ table.rows \in Nat
      /\ Weight["table"] \in Nat /\ Weight["column"] \in Nat /\ Weight["row"] \in Nat
  BY ContextAssumption DEF TableRows
<1>2. Weight["column"] * table.columns \in Nat /\ Weight["row"] * table.rows \in Nat
  BY <1>1
<1> QED BY <1>1, <1>2 DEF Piece

LEMMA TablesLengthIsNat ==
  ASSUME NEW c, c.tables \in Seq(TableRows)
  PROVE  TablesLength(c) \in Nat
<1>1. DOMAIN c.tables = 1..Len(c.tables) /\ Len(c.tables) \in Int /\ 1 \in Int
  OBVIOUS
<1>2. IsFiniteSet(DOMAIN c.tables)
  BY <1>1, FS_Interval
<1>3. \A i \in DOMAIN c.tables : Sizes(c.tables)[i] \in Nat
  BY PieceIsNat DEF Sizes
<1> QED BY <1>2, <1>3, LengthIsTotal, TotalIsNat

\* Tables that shrink take less, and without the last one it is less by a table.
LEMMA SmallerIsShorter ==
  ASSUME NEW c, c.tables \in Seq(TableRows), NEW d, d.tables \in Seq(TableRows),
         Len(d.tables) = Len(c.tables),
         \A i \in 1..Len(c.tables) : Piece(d.tables[i]) <= Piece(c.tables[i])
  PROVE  TablesLength(d) <= TablesLength(c)
<1> DEFINE D == DOMAIN c.tables
<1>1. D = 1..Len(c.tables) /\ D = DOMAIN d.tables /\ Len(c.tables) \in Int /\ 1 \in Int
  OBVIOUS
<1>2. IsFiniteSet(D)
  BY <1>1, FS_Interval
<1>3. \A i \in D : Sizes(c.tables)[i] \in Nat /\ Sizes(d.tables)[i] \in Nat
                   /\ Sizes(d.tables)[i] <= Sizes(c.tables)[i]
  BY <1>1, PieceIsNat DEF Sizes
<1>4. TablesLength(c) = Total(Sizes(c.tables), D) /\ TablesLength(d) = Total(Sizes(d.tables), D)
  BY <1>1, LengthIsTotal
<1> HIDE DEF D
<1> QED BY <1>2, <1>3, <1>4, TotalIsMonotone

LEMMA FewerAreShorter ==
  ASSUME NEW c, c.tables \in Seq(TableRows), NEW d, d.tables \in Seq(TableRows),
         Len(c.tables) # 0, Len(d.tables) = Len(c.tables) - 1,
         \A i \in 1..Len(d.tables) : d.tables[i] = c.tables[i]
  PROVE  TablesLength(d) + Weight["table"] <= TablesLength(c)
<1> DEFINE D == DOMAIN c.tables
<1> DEFINE E == DOMAIN d.tables
<1> DEFINE n == Len(c.tables)
<1>1. D = 1..n /\ E = 1..(n - 1) /\ n \in Int /\ n - 1 \in Int /\ 1 \in Int /\ n \in D
  OBVIOUS
<1>2. IsFiniteSet(D) /\ IsFiniteSet(E) /\ E = D \ {n}
  <2>1. IsFiniteSet(1..n) /\ IsFiniteSet(1..(n - 1))
    <3> HIDE DEF n
    <3> QED BY <1>1, FS_Interval
  <2>2. 1..(n - 1) = (1..n) \ {n}
    <3> HIDE DEF n
    <3> QED BY <1>1
  <2> QED BY <1>1, <2>1, <2>2
<1>3. \A i \in D : Sizes(c.tables)[i] \in Nat
  BY PieceIsNat DEF Sizes
<1>4. \A i \in E : Sizes(d.tables)[i] \in Nat /\ Sizes(c.tables)[i] \in Nat
                   /\ Sizes(d.tables)[i] <= Sizes(c.tables)[i]
  <2> SUFFICES ASSUME NEW i \in E
               PROVE  /\ Sizes(d.tables)[i] \in Nat /\ Sizes(c.tables)[i] \in Nat
                      /\ Sizes(d.tables)[i] <= Sizes(c.tables)[i]
    OBVIOUS
  <2>1. i \in D /\ d.tables[i] = c.tables[i]
    BY <1>1
  <2>2. Sizes(d.tables)[i] = Sizes(c.tables)[i] /\ Sizes(c.tables)[i] \in Nat
    BY <1>3, <2>1 DEF Sizes
  <2> QED BY <2>2
<1>5. Sizes(c.tables)[n] >= Weight["table"] /\ Weight["table"] \in Nat
  BY <1>1, PieceIsNat DEF Sizes
<1>6. TablesLength(c) = Total(Sizes(c.tables), D) /\ TablesLength(d) = Total(Sizes(d.tables), E)
  BY LengthIsTotal
<1> HIDE DEF D, E, n
<1>7. Total(Sizes(c.tables), D) = Sizes(c.tables)[n] + Total(Sizes(c.tables), E)
  <2>1. Total(Sizes(c.tables), D) = Sizes(c.tables)[n] + Total(Sizes(c.tables), D \ {n})
    BY <1>1, <1>2, <1>3, TotalWithout
  <2> QED BY <1>2, <2>1
<1>8. Total(Sizes(d.tables), E) <= Total(Sizes(c.tables), E)
  BY <1>2, <1>4, TotalIsMonotone
<1>9. Total(Sizes(d.tables), E) \in Nat /\ Total(Sizes(c.tables), E) \in Nat
      /\ Sizes(c.tables)[n] \in Nat
  BY <1>1, <1>2, <1>3, <1>4, TotalIsNat
<1> QED BY <1>5, <1>6, <1>7, <1>8, <1>9

\* All the rest of what is serialized.
Beside(c) ==
  Weight["base"] + Weight["relationship"] * Cardinality(c.relationships)
    + Weight["warning"] * c.warnings + Weight["name"] * Len(c.omittedTables)
    + Weight["columnEntry"] * Cardinality(c.omittedColumns)

LEMMA LengthIsNat ==
  ASSUME SelectionOK, NEW c \in Contexts
  PROVE  /\ LengthOf(c) = TablesLength(c) + Beside(c)
         /\ TablesLength(c) \in Nat /\ Beside(c) \in Nat /\ LengthOf(c) \in Nat
<1>1. /\ Weight["base"] \in Nat /\ Weight["relationship"] \in Nat /\ Weight["warning"] \in Nat
      /\ Weight["name"] \in Nat /\ Weight["columnEntry"] \in Nat
  BY ContextAssumption
<1>2. IsFiniteSet(c.relationships) /\ IsFiniteSet(c.omittedColumns)
  <2>1. IsFiniteSet(input.keys) /\ IsFiniteSet(SelectedTables)
    BY ContextAssumption DEF SelectionOK
  <2> QED BY <2>1, FS_Subset DEF Contexts
<1>3. Cardinality(c.relationships) \in Nat /\ Cardinality(c.omittedColumns) \in Nat
  BY <1>2, FS_CardinalityType
<1>4. Len(c.omittedTables) \in Nat /\ c.warnings \in Nat /\ c.tables \in Seq(TableRows)
  BY DEF Contexts
<1> DEFINE a == Weight["relationship"] * Cardinality(c.relationships)
           b == Weight["warning"] * c.warnings
           n == Weight["name"] * Len(c.omittedTables)
           e == Weight["columnEntry"] * Cardinality(c.omittedColumns)
<1>5. a \in Nat /\ b \in Nat /\ n \in Nat /\ e \in Nat
  <2>1. \A x, y \in Nat : x * y \in Nat
    OBVIOUS
  <2> QED BY <1>1, <1>3, <1>4, <2>1
<1>6. TablesLength(c) \in Nat
  BY <1>4, TablesLengthIsNat
<1>7. LengthOf(c) = Weight["base"] + TablesLength(c) + a + b + n + e
      /\ Beside(c) = Weight["base"] + a + b + n + e
  BY LengthHasParts DEF Beside
<1> HIDE DEF a, b, n, e
<1> QED BY <1>1, <1>5, <1>6, <1>7

-----------------------------------------------------------------------------
(* MetadataContext: the invariant.  The tables are the first of the        *)
(* ranking; when their columns are cut no row is left or only a warning is *)
(* too much, and when tables are cut no second column is or only two are.  *)

TablesFit(tables) ==
  /\ Len(tables) <= Len(RankedTables)
  /\ \A i \in DOMAIN tables :
       /\ tables[i].name = RankedTables[i]
       /\ tables[i].columns + tables[i].omitted = input.columns[tables[i].name]

RowsAreCut(c) == \A i \in DOMAIN c.tables : c.tables[i].rows = 0
ColumnsAreCut(c) == \A i \in DOMAIN c.tables : c.tables[i].columns <= 1

CutInOrder ==
  /\ contextPhase = "Columns" =>
       RowsAreCut(context) \/ LengthOf(context) <= limits.characters + Weight["warning"]
  /\ contextPhase = "Tables" =>
       ColumnsAreCut(context) \/ LengthOf(context) <= limits.characters + Weight["warning"]

ContextInv ==
  /\ SelectionOK /\ context \in Contexts /\ contextPhase \in Phases /\ piecesCut \in BOOLEAN
  /\ TablesFit(context.tables)
  /\ contextPhase \notin {"Build", "Refused"} => context.tables # << >>
  /\ CutInOrder

LEMMA ContextMoves ==
  ASSUME ContextInv, UNCHANGED <<input, limits>>,
         context' \in Contexts, contextPhase' \in Phases, piecesCut' \in BOOLEAN,
         TablesFit(context'.tables),
         contextPhase' \notin {"Build", "Refused"} => context'.tables # << >>,
         CutInOrder'
  PROVE  ContextInv'
<1>1. SelectionOK' /\ context' \in Contexts'
  BY DEF ContextInv, SelectionOK, Contexts
<1>2. RankedTables' = RankedTables
  BY DEF RankedTables, Outranks, Score, RelationshipDegree
<1>3. TablesFit(context.tables)'
  BY <1>2 DEF TablesFit
<1> QED BY <1>1, <1>3 DEF ContextInv

Replaced(tables, i, row) == [tables EXCEPT ![i] = row]
WithTables(c, tables) == [c EXCEPT !.tables = tables]

\* A table that is replaced by what is left of it.
LEMMA RowReplaced ==
  ASSUME ContextInv, NEW i \in DOMAIN context.tables, NEW row \in TableRows,
         row.name = context.tables[i].name,
         row.columns + row.omitted = context.tables[i].columns + context.tables[i].omitted,
         NEW c, c = WithTables(context, Replaced(context.tables, i, row))
  PROVE  /\ c \in Contexts /\ TablesFit(c.tables) /\ c.tables # << >>
         /\ Len(c.tables) = Len(context.tables) /\ Len(c.tables) \in Nat
         /\ DOMAIN c.tables = DOMAIN context.tables /\ DOMAIN c.tables = 1..Len(c.tables)
         /\ \A j \in DOMAIN c.tables : c.tables[j] = IF j = i THEN row ELSE context.tables[j]
         /\ Beside(c) = Beside(context)
<1> DEFINE ts == [context.tables EXCEPT ![i] = row]
<1>1. context \in Contexts /\ context.tables \in Seq(TableRows)
  BY DEF ContextInv, Contexts
<1>2. /\ ts \in Seq(TableRows) /\ Len(ts) = Len(context.tables) /\ Len(ts) \in Nat
      /\ DOMAIN ts = DOMAIN context.tables /\ DOMAIN ts = 1..Len(ts)
      /\ \A j \in DOMAIN ts : ts[j] = IF j = i THEN row ELSE context.tables[j]
  BY <1>1
<1>a. c = [context EXCEPT !.tables = ts]
  BY DEF WithTables, Replaced
<1>3. ts # << >>
  BY <1>2
<1> HIDE DEF ts
<1>4. /\ c \in Contexts /\ c.tables = ts
      /\ c.relationships = context.relationships /\ c.warnings = context.warnings
      /\ c.omittedTables = context.omittedTables /\ c.omittedColumns = context.omittedColumns
  BY <1>1, <1>2, <1>a DEF Contexts
<1>5. TablesFit(ts)
  BY <1>2 DEF TablesFit, ContextInv
<1> QED BY <1>2, <1>3, <1>4, <1>5 DEF Beside

LEMMA ContextStarts == ContextInit => ContextInv
<1> SUFFICES ASSUME ContextInit PROVE ContextInv
  OBVIOUS
<1>1. SelectionOK
  BY DEF ContextInit, SelectionOK
<1>2. context \in Contexts /\ context.tables = << >> /\ Len(<< >>) = 0
  BY DEF ContextInit, EmptyContext, Contexts
<1>3. TablesFit(context.tables)
  BY <1>1, <1>2, TablesAreRanked DEF TablesFit
<1> QED BY <1>1, <1>2, <1>3 DEF ContextInit, ContextInv, CutInOrder, Phases

\* A part of a sequence from its start, or to its end.
LEMMA PartOfSequence ==
  ASSUME NEW S, NEW s \in Seq(S), NEW m \in Nat \ {0}, NEW n \in Nat, n <= Len(s)
  PROVE  /\ SubSeq(s, m, n) \in Seq(S) /\ Len(SubSeq(s, m, n)) \in Nat
         /\ m <= n + 1 => Len(SubSeq(s, m, n)) = n - m + 1
         /\ \A i \in 1..Len(SubSeq(s, m, n)) : SubSeq(s, m, n)[i] = s[m + i - 1]
<1>1. CASE m <= n + 1
  <2>1. Len(s) \in Nat /\ n - m + 1 \in Nat /\ \A i \in 1..(n - m + 1) : m + i - 1 \in 1..Len(s)
    BY <1>1
  <2> QED BY <1>1, <2>1
<1>2. CASE ~(m <= n + 1)
  <2>1. n - m + 1 < 0 /\ n - m + 1 \in Int
    BY <1>2
  <2>2. 1..(n - m + 1) = {}
    BY <2>1
  <2>3. SubSeq(s, m, n) = << >>
    BY <2>1, <2>2
  <2> QED BY <1>2, <2>3
<1> QED BY <1>1, <1>2

LEMMA TableContextFits ==
  ASSUME SelectionOK, NEW t \in SelectedTables
  PROVE  /\ TableContext(t) \in TableRows /\ TableContext(t).name = t
         /\ TableContext(t).columns + TableContext(t).omitted = input.columns[t]
<1>1. /\ input.columns[t] \in Nat /\ input.rows[t] \in Nat /\ MaxColumnsPerTable \in Nat
  BY ContextAssumption DEF SelectionOK
<1> DEFINE kept == Shortest(input.columns[t], MaxColumnsPerTable)
<1>2. kept \in Nat /\ input.columns[t] - kept \in Nat /\ kept + (input.columns[t] - kept) = input.columns[t]
  BY <1>1 DEF Shortest
<1>3. TableContext(t) = [name |-> t, columns |-> kept, rows |-> input.rows[t],
                         omitted |-> input.columns[t] - kept]
  BY DEF TableContext
<1> HIDE DEF kept
<1> QED BY <1>1, <1>2, <1>3 DEF TableRows

LEMMA BuildKeeps ==
  ASSUME ContextInv, buildMetadataContext
  PROVE  ContextInv'
<1> DEFINE ranked == RankedTables
           taken == Shortest(limits.tables, Len(ranked))
           left == SubSeq(ranked, taken + 1, Len(ranked))
           tables == [i \in 1..taken |-> TableContext(ranked[i])]
           reported == SubSeq(left, 1, Shortest(MaxReportedOmitted, Len(left)))
           warned == (IF left # <<>> THEN 1 ELSE 0)
                     + (IF \A t \in SelectedTables : input.rows[t] = 0 THEN 1 ELSE 0)
           draft == [EmptyContext EXCEPT !.tables = tables, !.omittedTables = reported,
                                         !.included = taken, !.warnings = warned]
<1>0. SelectionOK /\ UNCHANGED <<input, limits, piecesCut>> /\ contextPhase' = "Rows"
  BY DEF ContextInv, buildMetadataContext
<1>1. /\ ranked \in Seq(SelectedTables) /\ Len(ranked) \in Nat /\ Len(ranked) >= 1
      /\ limits.tables \in Nat \ {0} /\ MaxReportedOmitted \in Nat
  BY <1>0, TablesAreRanked, ContextAssumption DEF SelectionOK
<1>2. taken \in Nat /\ taken >= 1 /\ taken <= Len(ranked)
  BY <1>1 DEF Shortest
<1>3. context' = [draft EXCEPT
          !.relationships = {k \in input.keys : {k[1], k[2]} \subseteq IncludedNames(draft)},
          !.omittedColumns = ShortenedTables(draft)]
  BY DEF buildMetadataContext
<1>4. left \in Seq(SelectedTables) /\ Len(left) \in Nat
  <2> HIDE DEF ranked, taken
  <2>1. taken + 1 \in Nat \ {0}
    BY <1>2
  <2> QED BY <1>1, <2>1, PartOfSequence
<1>5. reported \in Seq(SelectedTables)
  <2> HIDE DEF left
  <2>1. Shortest(MaxReportedOmitted, Len(left)) \in Nat
        /\ Shortest(MaxReportedOmitted, Len(left)) <= Len(left)
    BY <1>1, <1>4 DEF Shortest
  <2>2. 1 \in Nat \ {0}
    OBVIOUS
  <2> QED BY <1>4, <2>1, <2>2, PartOfSequence
<1> HIDE DEF left
<1>6. warned \in Nat
  OBVIOUS
<1> HIDE DEF taken, reported, warned
<1>7. \A i \in 1..taken :
        /\ ranked[i] \in SelectedTables
        /\ tables[i] \in TableRows /\ tables[i].name = ranked[i]
        /\ tables[i].columns + tables[i].omitted = input.columns[tables[i].name]
  <2> SUFFICES ASSUME NEW i \in 1..taken
               PROVE  /\ ranked[i] \in SelectedTables
                      /\ tables[i] \in TableRows /\ tables[i].name = ranked[i]
                      /\ tables[i].columns + tables[i].omitted = input.columns[tables[i].name]
    OBVIOUS
  <2>1. tables[i] = TableContext(ranked[i])
    OBVIOUS
  <2> HIDE DEF ranked, tables
  <2>2. ranked[i] \in SelectedTables
    BY <1>1, <1>2
  <2> QED BY <1>0, <2>1, <2>2, TableContextFits
<1>8. tables \in Seq(TableRows) /\ Len(tables) = taken /\ DOMAIN tables = 1..taken
      /\ tables # << >>
  <2>1. DOMAIN tables = 1..taken /\ tables \in [1..taken -> TableRows]
    BY <1>7
  <2> HIDE DEF tables
  <2> QED BY <1>2, <2>1
<1> HIDE DEF tables
<1>9. TablesFit(tables)
  BY <1>2, <1>7, <1>8 DEF TablesFit
<1>10. draft = [tables |-> tables, relationships |-> {}, omittedTables |-> reported,
                omittedColumns |-> {}, included |-> taken, warnings |-> warned]
  <2> DEFINE Row(t, o, n, w) == [tables |-> t, relationships |-> {}, omittedTables |-> o,
                                 omittedColumns |-> {}, included |-> n, warnings |-> w]
  <2> DEFINE SetT(r, x) == [r EXCEPT !.tables = x]
             SetO(r, x) == [r EXCEPT !.omittedTables = x]
             SetI(r, x) == [r EXCEPT !.included = x]
             SetW(r, x) == [r EXCEPT !.warnings = x]
  <2>1. \A t, o, n, w, x : SetT(Row(t, o, n, w), x) = Row(x, o, n, w)
    OBVIOUS
  <2>2. \A t, o, n, w, x : SetO(Row(t, o, n, w), x) = Row(t, x, n, w)
    OBVIOUS
  <2>3. \A t, o, n, w, x : SetI(Row(t, o, n, w), x) = Row(t, o, x, w)
    OBVIOUS
  <2>4. \A t, o, n, w, x : SetW(Row(t, o, n, w), x) = Row(t, o, n, x)
    OBVIOUS
  <2>5. draft = SetW(SetI(SetO(SetT(Row(<< >>, << >>, 0, 0), tables), reported), taken), warned)
    BY DEF EmptyContext
  <2> HIDE DEF Row, draft, SetT, SetO, SetI, SetW
  <2>6. draft = Row(tables, reported, taken, warned)
    BY <2>1, <2>2, <2>3, <2>4, <2>5
  <2> QED BY <2>6 DEF Row
<1>11. ShortenedTables(draft) \subseteq SelectedTables
  <2> HIDE DEF draft
  <2> QED BY <1>7, <1>8, <1>10 DEF ShortenedTables, TableRows
<1> DEFINE keys == {k \in input.keys : {k[1], k[2]} \subseteq IncludedNames(draft)}
           shortened == ShortenedTables(draft)
<1>12. keys \in SUBSET input.keys /\ shortened \in SUBSET SelectedTables
  BY <1>11
<1>13. context' = [tables |-> tables, relationships |-> keys, omittedTables |-> reported,
                   omittedColumns |-> shortened, included |-> taken, warnings |-> warned]
  <2> HIDE DEF keys, shortened
  <2>1. context' = [draft EXCEPT !.relationships = keys, !.omittedColumns = shortened]
    BY <1>3 DEF keys, shortened
  <2> HIDE DEF draft
  <2> QED BY <1>10, <2>1
<1> HIDE DEF keys, shortened, draft
<1>14. context' \in Contexts /\ context'.tables = tables
  BY <1>2, <1>5, <1>6, <1>8, <1>12, <1>13 DEF Contexts
<1>15. CutInOrder' /\ contextPhase' \in Phases /\ piecesCut' \in BOOLEAN
  BY <1>0 DEF CutInOrder, Phases, ContextInv
<1> QED BY <1>0, <1>8, <1>9, <1>14, <1>15, ContextMoves

LEMMA CutRowKeeps ==
  ASSUME ContextInv, cutRow
  PROVE  ContextInv'
<1>1. PICK i \in RowCandidates : context' = [context EXCEPT !.tables[i].rows = @ - 1]
  BY DEF cutRow
<1> DEFINE row == [context.tables[i] EXCEPT !.rows = context.tables[i].rows - 1]
<1>2. i \in DOMAIN context.tables /\ context.tables[i].rows > 0 /\ context.tables[i] \in TableRows
  BY DEF RowCandidates, ContextInv, Contexts
<1>3. /\ row \in TableRows /\ row.name = context.tables[i].name
      /\ row.columns = context.tables[i].columns /\ row.omitted = context.tables[i].omitted
  BY <1>2 DEF TableRows
<1>4. context' = WithTables(context, Replaced(context.tables, i, row))
  BY <1>1 DEF WithTables, Replaced
<1> HIDE DEF row
<1>5. context' \in Contexts /\ TablesFit(context'.tables) /\ context'.tables # << >>
  <2>1. row.columns + row.omitted = context.tables[i].columns + context.tables[i].omitted
    BY <1>3
  <2> QED BY <1>2, <1>3, <1>4, <2>1, RowReplaced
<1>6. UNCHANGED <<input, limits, contextPhase>> /\ contextPhase = "Rows" /\ piecesCut' = TRUE
  BY DEF cutRow
<1>7. CutInOrder' /\ contextPhase' \in Phases
  BY <1>6 DEF CutInOrder, Phases
<1> QED BY <1>5, <1>6, <1>7, ContextMoves

LEMMA CutColumnKeeps ==
  ASSUME ContextInv, cutColumn
  PROVE  ContextInv'
<1>1. PICK i \in ColumnCandidates :
        context' = [context EXCEPT !.tables[i].columns = @ - 1,
                                   !.tables[i].omitted = OmittedAfterCut(context.tables[i])]
  BY DEF cutColumn
<1> DEFINE uncut == context.tables[i]
           row == [uncut EXCEPT !.columns = uncut.columns - 1, !.omitted = uncut.omitted + 1]
<1>2. /\ i \in DOMAIN context.tables /\ uncut.columns > 1 /\ uncut \in TableRows
      /\ uncut.columns \in Nat /\ uncut.omitted \in Nat
  <2>1. i \in DOMAIN context.tables /\ context.tables[i].columns > 1
    BY DEF ColumnCandidates
  <2>2. context.tables[i] \in TableRows
    BY <2>1 DEF ContextInv, Contexts
  <2> QED BY <2>1, <2>2 DEF TableRows
<1>3. /\ row \in TableRows /\ row.name = uncut.name /\ row.rows = uncut.rows
      /\ row.columns = uncut.columns - 1 /\ row.omitted = uncut.omitted + 1
  <2> HIDE DEF uncut
  <2>1. uncut.columns - 1 \in Nat /\ uncut.omitted + 1 \in Nat
    BY <1>2
  <2> QED BY <1>2, <2>1 DEF TableRows
<1>4. context' = WithTables(context, Replaced(context.tables, i, row))
  BY <1>1 DEF OmittedAfterCut, WithTables, Replaced
<1>5. row.columns + row.omitted = uncut.columns + uncut.omitted
  BY <1>2, <1>3
<1>6. Piece(row) <= Piece(uncut)
  <2>1. /\ Weight["table"] \in Nat /\ Weight["column"] \in Nat /\ Weight["row"] \in Nat
        /\ uncut.rows \in Nat
    BY <1>2, ContextAssumption DEF TableRows
  <2>2. \A w, x \in Nat : x >= 1 => w * (x - 1) <= w * x /\ w * (x - 1) \in Nat /\ w * x \in Nat
    OBVIOUS
  <2>3. Weight["column"] * row.columns <= Weight["column"] * uncut.columns
        /\ Weight["column"] * row.columns \in Nat /\ Weight["column"] * uncut.columns \in Nat
    BY <1>2, <1>3, <2>1, <2>2
  <2>4. Weight["row"] * uncut.rows \in Nat
    <3>1. \A x, y \in Nat : x * y \in Nat
      OBVIOUS
    <3> QED BY <2>1, <3>1
  <2> HIDE DEF row, uncut
  <2> QED BY <1>3, <2>1, <2>3, <2>4 DEF Piece
<1> HIDE DEF row
<1>7. /\ context' \in Contexts /\ TablesFit(context'.tables) /\ context'.tables # << >>
      /\ Len(context'.tables) = Len(context.tables) /\ Len(context'.tables) \in Nat
      /\ DOMAIN context'.tables = DOMAIN context.tables
      /\ DOMAIN context'.tables = 1..Len(context'.tables)
      /\ \A j \in DOMAIN context'.tables :
           context'.tables[j] = IF j = i THEN row ELSE context.tables[j]
      /\ Beside(context') = Beside(context)
  BY <1>2, <1>3, <1>4, <1>5, RowReplaced
<1>8. UNCHANGED <<input, limits, contextPhase>> /\ contextPhase = "Columns" /\ piecesCut' = TRUE
  BY DEF cutColumn
<1>9. LengthOf(context') <= LengthOf(context)
  <2>1. context \in Contexts /\ context.tables \in Seq(TableRows)
        /\ context'.tables \in Seq(TableRows) /\ SelectionOK
    BY <1>7 DEF ContextInv, Contexts
  <2>2. \A j \in 1..Len(context.tables) : Piece(context'.tables[j]) <= Piece(context.tables[j])
    <3> SUFFICES ASSUME NEW j \in 1..Len(context.tables)
                 PROVE  Piece(context'.tables[j]) <= Piece(context.tables[j])
      OBVIOUS
    <3>1. CASE j = i
      BY <1>6, <1>7, <3>1
    <3>2. CASE j # i
      <4>1. context'.tables[j] = context.tables[j] /\ context.tables[j] \in TableRows
        BY <1>7, <2>1, <3>2
      <4>2. Piece(context.tables[j]) \in Nat
        BY <4>1, PieceIsNat
      <4> QED BY <4>1, <4>2
    <3> QED BY <3>1, <3>2
  <2>3. TablesLength(context') <= TablesLength(context)
    BY <1>7, <2>1, <2>2, SmallerIsShorter
  <2>4. /\ LengthOf(context) = TablesLength(context) + Beside(context)
        /\ LengthOf(context') = TablesLength(context') + Beside(context')
        /\ TablesLength(context) \in Nat /\ TablesLength(context') \in Nat
        /\ Beside(context) \in Nat
    BY <1>7, <2>1, LengthIsNat
  <2> QED BY <1>7, <2>3, <2>4
<1>10. RowsAreCut(context) => RowsAreCut(context')
  BY <1>2, <1>3, <1>7 DEF RowsAreCut
<1>11. CutInOrder' /\ contextPhase' \in Phases
  <2>1. limits.characters \in Nat /\ Weight["warning"] \in Nat /\ LengthOf(context) \in Nat
        /\ LengthOf(context') \in Nat
    BY <1>7, ContextAssumption, LengthIsNat DEF ContextInv, SelectionOK
  <2>2. RowsAreCut(context) \/ LengthOf(context) <= limits.characters + Weight["warning"]
    BY <1>8 DEF ContextInv, CutInOrder
  <2>3. RowsAreCut(context') \/ LengthOf(context') <= limits.characters + Weight["warning"]
    BY <1>9, <1>10, <2>1, <2>2
  <2>4. limits' = limits /\ contextPhase' = "Columns" /\ RowsAreCut(context)' = RowsAreCut(context')
        /\ LengthOf(context)' = LengthOf(context')
    BY <1>8
  <2> QED BY <2>3, <2>4 DEF CutInOrder, Phases
<1> QED BY <1>7, <1>8, <1>11, ContextMoves

\* The tables lose their last, whose name joins those that are said to be omitted.
LEMMA CutTableKeeps ==
  ASSUME ContextInv, cutTable
  PROVE  ContextInv'
<1> DEFINE n == Len(context.tables)
           kept == WithoutLast(context.tables)
           cut == CHOOSE t \in IncludedNames(context) : \A i \in DOMAIN kept : kept[i].name # t
           omitted == IF Len(context.omittedTables) < MaxReportedOmitted
                      THEN Append(context.omittedTables, cut) ELSE context.omittedTables
<1>1. /\ SelectionOK /\ context \in Contexts /\ context.tables \in Seq(TableRows)
      /\ context.omittedTables \in Seq(SelectedTables) /\ TablesFit(context.tables)
      /\ contextPhase = "Tables" /\ n > 1 /\ n \in Nat
      /\ UNCHANGED <<input, limits, contextPhase>> /\ piecesCut' = TRUE
  BY DEF ContextInv, Contexts, cutTable
<1>2. context' = [context EXCEPT !.tables = kept, !.omittedTables = omitted]
  BY DEF cutTable
<1>3. /\ kept \in Seq(TableRows) /\ Len(kept) = n - 1 /\ DOMAIN kept = 1..(n - 1)
      /\ \A i \in 1..(n - 1) : kept[i] = context.tables[i]
  <2> HIDE DEF n
  <2>1. 1 \in Nat \ {0} /\ n - 1 \in Nat /\ n - 1 <= Len(context.tables) /\ 1 <= n - 1 + 1
        /\ n - 1 - 1 + 1 = n - 1 /\ kept = SubSeq(context.tables, 1, n - 1)
    BY <1>1 DEF n, WithoutLast
  <2> HIDE DEF kept
  <2>2. kept \in Seq(TableRows) /\ Len(kept) = n - 1
        /\ \A i \in 1..Len(kept) : kept[i] = context.tables[1 + i - 1]
    BY <1>1, <2>1, PartOfSequence
  <2>3. \A i \in 1..(n - 1) : 1 + i - 1 = i
    BY <2>1
  <2> QED BY <2>1, <2>2, <2>3
<1> HIDE DEF kept
<1>4. cut \in SelectedTables
  <2>1. n \in DOMAIN context.tables /\ \A i \in 1..(n - 1) : i \in DOMAIN context.tables /\ i # n
    BY <1>1
  <2>2. context.tables[n].name = RankedTables[n]
        /\ \A i \in 1..(n - 1) : kept[i].name = RankedTables[i]
    BY <1>1, <1>3, <2>1 DEF TablesFit
  <2>3. n \in 1..Len(RankedTables) /\ \A i \in 1..(n - 1) : i \in 1..Len(RankedTables)
    BY <1>1, TablesAreRanked DEF TablesFit
  <2>4. \A i \in 1..(n - 1) : kept[i].name # context.tables[n].name
    BY <1>1, <2>1, <2>2, <2>3, TablesAreRanked
  <2>5. cut \in IncludedNames(context)
    BY <1>3, <2>1, <2>4 DEF IncludedNames
  <2>6. PICK j \in DOMAIN context.tables : cut = context.tables[j].name
    <3> HIDE DEF cut
    <3> QED BY <2>5 DEF IncludedNames
  <2> HIDE DEF cut
  <2>7. context.tables[j] \in TableRows
    BY <1>1, <2>6
  <2> QED BY <2>6, <2>7 DEF TableRows
<1> HIDE DEF cut
<1>5. /\ omitted \in Seq(SelectedTables) /\ Len(omitted) \in Nat
      /\ Len(omitted) <= Len(context.omittedTables) + 1 /\ Len(context.omittedTables) \in Nat
  BY <1>1, <1>4
<1> HIDE DEF omitted
<1>6. /\ context' \in Contexts /\ context'.tables = kept /\ context'.omittedTables = omitted
      /\ context'.relationships = context.relationships /\ context'.warnings = context.warnings
      /\ context'.omittedColumns = context.omittedColumns
  BY <1>1, <1>2, <1>3, <1>5 DEF Contexts
<1>7. TablesFit(context'.tables) /\ context'.tables # << >>
  <2>1. Len(kept) <= Len(RankedTables)
    BY <1>1, <1>3, TablesAreRanked DEF TablesFit
  <2>2. \A i \in DOMAIN kept : i \in DOMAIN context.tables
    BY <1>1, <1>3
  <2>3. kept # << >>
    BY <1>1, <1>3
  <2> QED BY <1>1, <1>3, <1>6, <2>1, <2>2, <2>3 DEF TablesFit
<1>8. LengthOf(context') <= LengthOf(context)
  <2>1. TablesLength(context') + Weight["table"] <= TablesLength(context)
    <3>1. Len(context.tables) # 0 /\ Len(context'.tables) = Len(context.tables) - 1
          /\ \A i \in 1..Len(context'.tables) : context'.tables[i] = context.tables[i]
      BY <1>1, <1>3, <1>6
    <3> QED BY <1>1, <1>3, <1>6, <3>1, FewerAreShorter
  <2>2. /\ LengthOf(context) = TablesLength(context) + Beside(context)
        /\ LengthOf(context') = TablesLength(context') + Beside(context')
        /\ TablesLength(context) \in Nat /\ TablesLength(context') \in Nat
        /\ Beside(context) \in Nat /\ Beside(context') \in Nat
    BY <1>1, <1>6, LengthIsNat
  <2>3. Weight["name"] \in Nat /\ Weight["table"] \in Nat /\ Weight["name"] <= Weight["table"]
    BY ContextAssumption
  <2>4. Beside(context') <= Beside(context) + Weight["name"]
    <3> DEFINE a == Weight["base"] + Weight["relationship"] * Cardinality(context.relationships)
                      + Weight["warning"] * context.warnings
               e == Weight["columnEntry"] * Cardinality(context.omittedColumns)
               w == Weight["name"]
               x == Len(context.omittedTables)
               y == Len(omitted)
    <3>1. Beside(context) = a + w * x + e /\ Beside(context') = a + w * y + e
      BY <1>6 DEF Beside
    <3>2. a \in Nat /\ e \in Nat
      <4>1. /\ Weight["base"] \in Nat /\ Weight["relationship"] \in Nat
            /\ Weight["warning"] \in Nat /\ Weight["columnEntry"] \in Nat
        BY ContextAssumption
      <4>2. IsFiniteSet(context.relationships) /\ IsFiniteSet(context.omittedColumns)
        <5>1. IsFiniteSet(input.keys) /\ IsFiniteSet(SelectedTables)
          BY <1>1, ContextAssumption DEF SelectionOK
        <5> QED BY <1>1, <5>1, FS_Subset DEF Contexts
      <4>3. Cardinality(context.relationships) \in Nat /\ context.warnings \in Nat
            /\ Cardinality(context.omittedColumns) \in Nat
        BY <1>1, <4>2, FS_CardinalityType DEF Contexts
      <4>4. \A p, q \in Nat : p * q \in Nat
        OBVIOUS
      <4>5. Weight["relationship"] * Cardinality(context.relationships) \in Nat
            /\ Weight["warning"] * context.warnings \in Nat /\ e \in Nat
        BY <4>1, <4>3, <4>4
      <4> QED BY <4>1, <4>5
    <3>3. \A p, q \in Nat, v \in Nat : q <= p + 1 => v * q <= v * p + v
      <4> SUFFICES ASSUME NEW p \in Nat, NEW q \in Nat, NEW v \in Nat, q <= p + 1
                   PROVE  v * q <= v * p + v
        OBVIOUS
      <4>1. CASE q = p + 1
        BY <4>1
      <4>2. CASE q <= p
        BY <4>2
      <4> QED BY <4>1, <4>2
    <3>4. w * y <= w * x + w /\ w * y \in Nat /\ w * x \in Nat /\ w \in Nat
      <4> HIDE DEF w, x, y
      <4>1. w \in Nat /\ x \in Nat /\ y \in Nat /\ y <= x + 1
        BY <1>5, <2>3 DEF w, x, y
      <4>2. \A p, q \in Nat : p * q \in Nat
        OBVIOUS
      <4> QED BY <3>3, <4>1, <4>2
    <3>5. w = Weight["name"]
      OBVIOUS
    <3> DEFINE wx == w * x
               wy == w * y
    <3>6. wy <= wx + w /\ wy \in Nat /\ wx \in Nat /\ w \in Nat
          /\ Beside(context) = a + wx + e /\ Beside(context') = a + wy + e
      BY <3>1, <3>4
    <3> HIDE DEF a, e, w, wx, wy
    <3> QED BY <3>2, <3>5, <3>6
  <2> QED BY <2>1, <2>2, <2>3, <2>4
<1>9. ColumnsAreCut(context) => ColumnsAreCut(context')
  <2>1. \A i \in DOMAIN kept : i \in DOMAIN context.tables /\ kept[i] = context.tables[i]
    BY <1>1, <1>3
  <2> QED BY <1>6, <2>1 DEF ColumnsAreCut
<1>10. CutInOrder'
  <2>1. limits.characters \in Nat /\ Weight["warning"] \in Nat /\ LengthOf(context) \in Nat
        /\ LengthOf(context') \in Nat
    BY <1>1, <1>6, ContextAssumption, LengthIsNat DEF SelectionOK
  <2>2. ColumnsAreCut(context) \/ LengthOf(context) <= limits.characters + Weight["warning"]
    BY <1>1 DEF ContextInv, CutInOrder
  <2>3. ColumnsAreCut(context') \/ LengthOf(context') <= limits.characters + Weight["warning"]
    BY <1>8, <1>9, <2>1, <2>2
  <2>4. limits' = limits /\ contextPhase' = "Tables"
        /\ ColumnsAreCut(context)' = ColumnsAreCut(context')
        /\ LengthOf(context)' = LengthOf(context')
    BY <1>1
  <2> QED BY <2>3, <2>4 DEF CutInOrder
<1>11. contextPhase' \in Phases /\ piecesCut' \in BOOLEAN
  BY <1>1 DEF Phases
<1> QED BY <1>1, <1>6, <1>7, <1>10, <1>11, ContextMoves

\* A warning leaves all else alone and takes the room of one warning at most.
LEMMA WarnedIsLonger ==
  ASSUME ContextInv, piecesCut \in BOOLEAN
  PROVE  /\ Warned(context) \in Contexts /\ Warned(context).tables = context.tables
         /\ LengthOf(Warned(context)) <= LengthOf(context) + Weight["warning"]
         /\ LengthOf(Warned(context)) \in Nat
<1> DEFINE more == IF piecesCut THEN 1 ELSE 0
           warned == [context EXCEPT !.warnings = context.warnings + more]
<1>1. context \in Contexts /\ context.warnings \in Nat /\ SelectionOK
  BY DEF ContextInv, Contexts
<1>2. more \in {0, 1} /\ context.warnings + more \in Nat
  BY <1>1
<1>3. Warned(context) = warned
  BY DEF Warned
<1> HIDE DEF more
<1>4. /\ warned \in Contexts /\ warned.tables = context.tables
      /\ warned.warnings = context.warnings + more
      /\ warned.relationships = context.relationships
      /\ warned.omittedTables = context.omittedTables
      /\ warned.omittedColumns = context.omittedColumns
  BY <1>1, <1>2 DEF Contexts
<1> HIDE DEF warned
<1>5. /\ LengthOf(context) = TablesLength(context) + Beside(context)
      /\ LengthOf(warned) = TablesLength(warned) + Beside(warned)
      /\ TablesLength(context) \in Nat /\ TablesLength(warned) \in Nat
      /\ Beside(context) \in Nat /\ Beside(warned) \in Nat /\ LengthOf(warned) \in Nat
  BY <1>1, <1>4, LengthIsNat
<1>6. TablesLength(warned) = TablesLength(context)
  <2>1. warned.tables \in Seq(TableRows) /\ warned.tables = context.tables
        /\ context.tables \in Seq(TableRows)
    BY <1>1, <1>4 DEF Contexts
  <2>2. /\ TablesLength(warned) = Total(Sizes(warned.tables), DOMAIN warned.tables)
        /\ TablesLength(context) = Total(Sizes(context.tables), DOMAIN context.tables)
    BY <2>1, LengthIsTotal
  <2> QED BY <2>1, <2>2
<1>7. Beside(warned) <= Beside(context) + Weight["warning"] /\ Weight["warning"] \in Nat
  <2> DEFINE a == Weight["base"] + Weight["relationship"] * Cardinality(context.relationships)
             e == Weight["columnEntry"] * Cardinality(context.omittedColumns)
             w == Weight["warning"]
             x == w * context.warnings
             d == w * more
             o == Weight["name"] * Len(context.omittedTables)
  <2>1. w \in Nat
    BY ContextAssumption
  <2>2. w * (context.warnings + more) = x + d /\ x \in Nat /\ d \in {0, w}
    <3> HIDE DEF w
    <3>1. \A p, q \in Nat : p * q \in Nat /\ p * (q + 0) = p * q + p * 0
                            /\ p * (q + 1) = p * q + p * 1 /\ p * 0 = 0 /\ p * 1 = p
      OBVIOUS
    <3>2. CASE more = 0
      BY <1>1, <2>1, <3>1, <3>2
    <3>3. CASE more = 1
      BY <1>1, <2>1, <3>1, <3>3
    <3> QED BY <1>2, <3>2, <3>3
  <2>3. Beside(context) = a + x + o + e /\ Beside(warned) = a + w * (context.warnings + more) + o + e
    BY <1>4 DEF Beside
  <2>4. Beside(warned) = a + (x + d) + o + e
    BY <2>2, <2>3
  <2>5. a \in Nat /\ e \in Nat /\ o \in Nat
    <3>1. /\ Weight["base"] \in Nat /\ Weight["relationship"] \in Nat
          /\ Weight["name"] \in Nat /\ Weight["columnEntry"] \in Nat
      BY ContextAssumption
    <3>2. IsFiniteSet(context.relationships) /\ IsFiniteSet(context.omittedColumns)
      <4>1. IsFiniteSet(input.keys) /\ IsFiniteSet(SelectedTables)
        BY <1>1, ContextAssumption DEF SelectionOK
      <4> QED BY <1>1, <4>1, FS_Subset DEF Contexts
    <3>3. Cardinality(context.relationships) \in Nat /\ Len(context.omittedTables) \in Nat
          /\ Cardinality(context.omittedColumns) \in Nat
      BY <1>1, <3>2, FS_CardinalityType DEF Contexts
    <3>4. \A p, q \in Nat : p * q \in Nat
      OBVIOUS
    <3>5. Weight["relationship"] * Cardinality(context.relationships) \in Nat
          /\ o \in Nat /\ e \in Nat
      BY <3>1, <3>3, <3>4
    <3> QED BY <3>1, <3>5
  <2>6. w = Weight["warning"]
    OBVIOUS
  <2> HIDE DEF a, e, w, x, d, o
  <2> QED BY <2>1, <2>2, <2>3, <2>4, <2>5, <2>6
<1> QED BY <1>3, <1>4, <1>5, <1>6, <1>7

LEMMA LoopEndsKeeps ==
  ASSUME ContextInv, loopEnds
  PROVE  ContextInv'
<1>1. /\ SelectionOK /\ context \in Contexts /\ context.tables \in Seq(TableRows)
      /\ piecesCut \in BOOLEAN /\ piecesCut' = FALSE /\ UNCHANGED <<input, limits>>
      /\ TablesFit(context.tables) /\ context.tables # << >>
      /\ contextPhase' \in {"Columns", "Tables", "Report"}
  BY DEF ContextInv, Contexts, loopEnds
<1>2. /\ LengthOf(context) \in Nat /\ LengthOf(Warned(context)) \in Nat
      /\ limits.characters \in Nat /\ Weight["warning"] \in Nat
      /\ LengthOf(Warned(context)) <= LengthOf(context) + Weight["warning"]
  BY <1>1, ContextAssumption, LengthIsNat, WarnedIsLonger DEF SelectionOK
<1>3. context' \in Contexts /\ context'.tables = context.tables
  <2>1. CASE context' = Warned(context)
    BY <1>1, <2>1, WarnedIsLonger
  <2>2. CASE context' = context
    BY <1>1, <2>2
  <2>3. CASE context' = [Warned(context) EXCEPT !.included = Len(context.tables)]
    <3> DEFINE warned == Warned(context)
    <3>1. warned \in Contexts /\ warned.tables = context.tables
          /\ Len(context.tables) \in Nat /\ context' = [warned EXCEPT !.included = Len(context.tables)]
      BY <1>1, <2>3, WarnedIsLonger
    <3> HIDE DEF warned
    <3> QED BY <3>1 DEF Contexts
  <2> QED BY <2>1, <2>2, <2>3 DEF loopEnds
<1>4. CutInOrder'
  <2>0. RowsAreCut(context)' = RowsAreCut(context') /\ LengthOf(context)' = LengthOf(context')
        /\ ColumnsAreCut(context)' = ColumnsAreCut(context')
    OBVIOUS
  <2>a. ~TooLong(context) =>
          LengthOf(Warned(context)) <= limits.characters + Weight["warning"]
    <3>1. ~TooLong(context) => LengthOf(context) <= limits.characters
      BY <1>2 DEF TooLong
    <3> QED BY <1>2, <3>1
  <2>b. \A i \in DOMAIN context.tables :
          context.tables[i].rows \in Nat /\ context.tables[i].columns \in Nat
    <3>1. \A i \in DOMAIN context.tables : context.tables[i] \in TableRows
      BY <1>1
    <3> QED BY <3>1 DEF TableRows
  <2>1. ASSUME contextPhase' = "Columns"
        PROVE  RowsAreCut(context') \/ LengthOf(context') <= limits.characters + Weight["warning"]
    <3>1. (~TooLong(context) \/ RowCandidates = {}) /\ context' = Warned(context)
      BY <2>1 DEF loopEnds
    <3>2. CASE ~TooLong(context)
      BY <2>a, <3>1, <3>2
    <3>3. CASE RowCandidates = {}
      BY <1>3, <2>b, <3>3 DEF RowCandidates, RowsAreCut
    <3> QED BY <3>1, <3>2, <3>3
  <2>2. ASSUME contextPhase' = "Tables"
        PROVE  ColumnsAreCut(context') \/ LengthOf(context') <= limits.characters + Weight["warning"]
    <3>1. (~TooLong(context) \/ ColumnCandidates = {}) /\ context' = Warned(context)
      BY <2>2 DEF loopEnds
    <3>2. CASE ~TooLong(context)
      BY <2>a, <3>1, <3>2
    <3>3. CASE ColumnCandidates = {}
      BY <1>3, <2>b, <3>3 DEF ColumnCandidates, ColumnsAreCut
    <3> QED BY <3>1, <3>2, <3>3
  <2> QED BY <1>1, <2>0, <2>1, <2>2 DEF CutInOrder
<1>5. contextPhase' \in Phases /\ piecesCut' \in BOOLEAN
  BY <1>1 DEF Phases
<1> QED BY <1>1, <1>3, <1>4, <1>5, ContextMoves

LEMMA ReportKeeps ==
  ASSUME ContextInv, reportColumns
  PROVE  ContextInv'
<1> DEFINE shortened == ShortenedTables(context)
<1>1. /\ context \in Contexts /\ piecesCut' = piecesCut /\ UNCHANGED <<input, limits>>
      /\ piecesCut \in BOOLEAN /\ TablesFit(context.tables) /\ context.tables # << >>
      /\ contextPhase' \in {"Compact", "Check"}
  BY DEF ContextInv, reportColumns
<1>2. context' = [context EXCEPT !.omittedColumns = shortened]
  BY DEF reportColumns
<1>3. shortened \in SUBSET SelectedTables
  <2>1. \A i \in DOMAIN context.tables : context.tables[i] \in TableRows
    BY <1>1 DEF Contexts
  <2>2. \A i \in DOMAIN context.tables : context.tables[i].name \in SelectedTables
    BY <2>1 DEF TableRows
  <2> QED BY <2>2 DEF ShortenedTables
<1> HIDE DEF shortened
<1>4. context' \in Contexts /\ context'.tables = context.tables
  BY <1>1, <1>2, <1>3 DEF Contexts
<1>5. CutInOrder' /\ contextPhase' \in Phases
  BY <1>1 DEF CutInOrder, Phases
<1> QED BY <1>1, <1>4, <1>5, ContextMoves

LEMMA CompactKeeps ==
  ASSUME ContextInv, ultraCompact
  PROVE  ContextInv'
<1> DEFINE primary == context.tables[1]
           row == [primary EXCEPT !.columns = 0, !.rows = 0,
                                  !.omitted = primary.omitted + primary.columns]
<1>1. /\ context \in Contexts /\ piecesCut' = piecesCut /\ UNCHANGED <<input, limits>>
      /\ piecesCut \in BOOLEAN /\ TablesFit(context.tables) /\ context.tables # << >>
      /\ context.tables \in Seq(TableRows) /\ context.warnings + 1 \in Nat
      /\ contextPhase' = "Check" /\ SelectionOK
  BY DEF ContextInv, ultraCompact, Contexts
<1>2. context' = [context EXCEPT !.tables = <<row>>, !.relationships = {}, !.included = 1,
                                 !.omittedColumns = {}, !.warnings = context.warnings + 1]
  BY DEF ultraCompact
<1>3. 1 \in DOMAIN context.tables /\ primary \in TableRows
  BY <1>1
<1>4. /\ primary.name = RankedTables[1] /\ primary.columns \in Nat /\ primary.omitted \in Nat
      /\ primary.columns + primary.omitted = input.columns[primary.name]
  BY <1>1, <1>3 DEF TablesFit, TableRows
<1> HIDE DEF primary
<1>5. /\ row \in TableRows /\ row.name = primary.name /\ row.columns = 0
      /\ row.omitted = primary.omitted + primary.columns
  <2>1. primary.omitted + primary.columns \in Nat
    BY <1>4
  <2> QED BY <1>3, <2>1 DEF TableRows
<1> HIDE DEF row
<1>6. /\ <<row>> \in Seq(TableRows) /\ Len(<<row>>) = 1 /\ <<row>> # << >>
      /\ DOMAIN <<row>> = {1} /\ <<row>>[1] = row
  BY <1>5
<1>7. TablesFit(<<row>>)
  <2>1. row.columns + row.omitted = input.columns[row.name]
    BY <1>4, <1>5
  <2>2. 1 <= Len(RankedTables)
    BY <1>1, TablesAreRanked
  <2> QED BY <1>4, <1>5, <1>6, <2>1, <2>2 DEF TablesFit
<1>8. context' \in Contexts /\ context'.tables = <<row>>
  <2> DEFINE one == <<row>>
  <2>1. one \in Seq(TableRows)
        /\ context' = [context EXCEPT !.tables = one, !.relationships = {}, !.included = 1,
                                      !.omittedColumns = {}, !.warnings = context.warnings + 1]
    BY <1>2, <1>6
  <2> HIDE DEF one
  <2>2. context' \in Contexts /\ context'.tables = one
    BY <1>1, <2>1 DEF Contexts
  <2> QED BY <2>2 DEF one
<1>9. CutInOrder' /\ contextPhase' \in Phases
  BY <1>1 DEF CutInOrder, Phases
<1> QED BY <1>1, <1>6, <1>7, <1>8, <1>9, ContextMoves

LEMMA ContextStep ==
  ASSUME ContextInv, [ContextNext]_contextVars
  PROVE  ContextInv'
<1>1. CASE samplesFail
  <2>1. UNCHANGED <<input, limits, context, piecesCut>> /\ contextPhase' = "Refused"
        /\ context \in Contexts /\ piecesCut \in BOOLEAN /\ TablesFit(context.tables)
    BY <1>1 DEF samplesFail, ContextInv
  <2> QED BY <2>1, ContextMoves DEF CutInOrder, Phases
<1>2. CASE checkContext
  <2>1. /\ UNCHANGED <<input, limits, context, piecesCut>>
        /\ contextPhase' \in {"Refused", "Accepted"} /\ context.tables # << >>
        /\ context \in Contexts /\ piecesCut \in BOOLEAN /\ TablesFit(context.tables)
    BY <1>2 DEF checkContext, ContextInv
  <2> QED BY <2>1, ContextMoves DEF CutInOrder, Phases
<1>3. CASE UNCHANGED contextVars
  <2>1. /\ UNCHANGED <<input, limits, context, piecesCut, contextPhase>>
        /\ context \in Contexts /\ piecesCut \in BOOLEAN /\ TablesFit(context.tables)
        /\ contextPhase \in Phases
        /\ (contextPhase \notin {"Build", "Refused"} => context.tables # << >>)
    BY <1>3 DEF contextVars, ContextInv
  <2>2. CutInOrder'
    <3>1. RowsAreCut(context)' = RowsAreCut(context) /\ LengthOf(context)' = LengthOf(context)
          /\ ColumnsAreCut(context)' = ColumnsAreCut(context)
      BY <2>1
    <3> QED BY <2>1, <3>1 DEF ContextInv, CutInOrder
  <2> QED BY <2>1, <2>2, ContextMoves
<1> QED BY <1>1, <1>2, <1>3, BuildKeeps, CutRowKeeps, CutColumnKeeps, CutTableKeeps,
           LoopEndsKeeps, ReportKeeps, CompactKeeps DEF ContextNext

THEOREM ContextInvariant == ContextSpec => []ContextInv
<1>1. ContextInit => ContextInv
  BY ContextStarts
<1>2. ContextInv /\ [ContextNext]_contextVars => ContextInv'
  BY ContextStep
<1> QED BY <1>1, <1>2, PTL DEF ContextSpec

LEMMA BestTablesComeFirst ==
  ASSUME ContextInv
  PROVE  BestTablesAreKept
<1> SUFFICES ASSUME NEW t \in IncludedNames(context),
                    NEW u \in SelectedTables \ IncludedNames(context)
             PROVE  Outranks(t, u)
  BY DEF BestTablesAreKept
<1>1. /\ SelectionOK /\ context.tables \in Seq(TableRows) /\ TablesFit(context.tables)
  BY DEF ContextInv, Contexts
<1>2. PICK i \in DOMAIN context.tables : t = context.tables[i].name
  BY DEF IncludedNames
<1>3. PICK k \in 1..Len(RankedTables) : RankedTables[k] = u
  BY <1>1, TablesAreRanked
<1>4. i \in 1..Len(context.tables) /\ Len(context.tables) \in Nat /\ t = RankedTables[i]
      /\ Len(context.tables) <= Len(RankedTables) /\ Len(RankedTables) \in Nat
  <2>1. Len(RankedTables) \in Nat
    BY <1>1, TablesAreRanked
  <2>2. i \in 1..Len(context.tables) /\ Len(context.tables) \in Nat
    BY <1>1, <1>2
  <2> QED BY <1>1, <1>2, <2>1, <2>2 DEF TablesFit
<1>5. k \notin DOMAIN context.tables
  <2> SUFFICES ASSUME k \in DOMAIN context.tables PROVE FALSE
    OBVIOUS
  <2>1. context.tables[k].name = u
    BY <1>1, <1>3 DEF TablesFit
  <2> QED BY <2>1 DEF IncludedNames
<1>6. i < k /\ i \in 1..Len(RankedTables)
  <2>1. DOMAIN context.tables = 1..Len(context.tables)
    BY <1>1
  <2> QED BY <1>3, <1>4, <1>5, <2>1
<1> QED BY <1>1, <1>3, <1>4, <1>6, TablesAreRanked

\* The property CheapestPiecesGoFirst: whatever is cut, the tables that are left outrank
\* all that are not, no column goes while a sample row is left and no table while one has
\* a second column, but for the length of the warning about what was cut before
\* (metadata-context.ts:130-181).
THEOREM CheapestPiecesFirst == ContextSpec => CheapestPiecesGoFirst
<1> DEFINE Ordered ==
      context'.tables # context.tables =>
        /\ contextPhase = "Columns" =>
             \/ \A i \in DOMAIN context.tables : context.tables[i].rows = 0
             \/ LengthOf(context) <= limits.characters + Weight["warning"]
        /\ contextPhase = "Tables" =>
             \/ \A i \in DOMAIN context.tables : context.tables[i].columns <= 1
             \/ LengthOf(context) <= limits.characters + Weight["warning"]
<1>1. ContextInv => Ordered
  BY DEF ContextInv, CutInOrder, RowsAreCut, ColumnsAreCut
<1>2. ContextInv => BestTablesAreKept
  BY BestTablesComeFirst
<1>3. [](ContextInv /\ BestTablesAreKept) => [][BestTablesAreKept' /\ Ordered]_contextVars
  BY <1>1, PTL
<1> QED BY <1>2, <1>3, ContextInvariant, PTL DEF CheapestPiecesGoFirst

\* The type invariant of the context, and: the columns that are shown of a table and those
\* that are said to be left out are together all it has, through every cut
\* (metadata-context.ts:155,197,270).
THEOREM ContextTypeCorrect == ContextSpec => [](ContextTypeOK /\ ColumnsAreCounted)
<1>1. ContextInv => ContextTypeOK /\ ColumnsAreCounted
  <2> SUFFICES ASSUME ContextInv PROVE ContextTypeOK /\ ColumnsAreCounted
    OBVIOUS
  <2>1. /\ context \in Contexts /\ SelectionOK /\ TablesFit(context.tables)
        /\ contextPhase \in Phases /\ piecesCut \in BOOLEAN
    BY DEF ContextInv
  <2>2. \A i \in DOMAIN context.tables : context.tables[i] \in TableRows
    BY <2>1 DEF Contexts
  <2>3. ContextTypeOK
    BY <2>1, <2>2 DEF ContextTypeOK, Contexts, SelectionOK, TableRows
  <2>4. ColumnsAreCounted
    BY <2>1 DEF ColumnsAreCounted, TablesFit
  <2> QED BY <2>3, <2>4
<1> QED BY <1>1, ContextInvariant, PTL
=============================================================================
