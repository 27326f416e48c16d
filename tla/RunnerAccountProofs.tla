------------------------- MODULE RunnerAccountProofs -------------------------
(***************************************************************************)
(* Every open Runner is accounted for, and an invalidated one is lent to    *)
(* nobody who asks later: for any number of keys, callers, Runners and      *)
(* slots.  Both rest on the invariant and the effects of the steps that     *)
(* RunnerRegistryProofs establishes.                                        *)
(***************************************************************************)
EXTENDS RunnerRegistryProofs

-----------------------------------------------------------------------------
(* Accounts *)

\* An open Runner is somebody's business.
Accounted(r) == runner[r].state = "open" =>
  InMap(r) \/ Leases(r) # {} \/ Listed(r) \/ r \in closer.wait \cup abandoned

\* A lent Runner that nobody has taken out of the map is in it.
LentIsInMap == \A r \in Runner : Leases(r) # {} /\ ~runner[r].dropped => InMap(r)

\* What is being built is not in the map, so that no build overwrites an entry.
BuiltIsMissing == \A k \in Key : pending[k] # NoOne => entries[k] = NoOne

\* Close has still to close what it has found and not closed.
CloserOK ==
  /\ closer.pc = "open" => closer.todo = {} /\ closer.wait = {}
  /\ closer.pc # "open" =>
       \A r \in closer.mine : runner[r].state = "closed" \/ r \in closer.todo \cup closer.wait
  /\ closer.pc = "ok" => Building = {} /\ closer.todo = {} /\ closer.wait = {}

AccountInv ==
  /\ LeaseInv /\ (\A r \in Runner : Accounted(r))
  /\ LentIsInMap /\ BuiltIsMissing /\ CloserOK

\* The new registry owes nobody anything.
LEMMA AccountsStart == Init => AccountInv
<1> SUFFICES ASSUME Init PROVE AccountInv  BY Zenon
<1>1. /\ \A r \in Runner : runner[r].state = "unmade"
      /\ \A c \in Caller : caller[c].pc = "idle"
      /\ \A k \in Key : entries[k] = NoOne
      /\ closer.todo = {} /\ closer.wait = {} /\ closer.pc = "open"
  BY Zenon DEF Init, IdleCaller, Unmade
<1> QED  BY <1>1, LeasesStart, Zenon DEF AccountInv, Accounted, LentIsInMap, Leases, BuiltIsMissing, CloserOK

\* A Runner stays accounted for if whoever answers for it goes on to do so, or
\* somebody else takes over.
LEMMA AccountStays ==
  ASSUME NEW r \in Runner, Accounted(r),
         runner'[r].state = "open" => runner[r].state = "open",
         InMap(r) => InMap(r)' \/ Leases(r)' # {} \/ Listed(r)' \/ r \in closer'.wait,
         Leases(r) # {} => Leases(r)' # {} \/ InMap(r)' \/ Listed(r)',
         Listed(r) => Listed(r)' \/ r \in abandoned',
         closer.wait \subseteq closer'.wait \cup {q \in Runner : runner'[q].state = "closed"},
         abandoned \subseteq abandoned'
  PROVE  Accounted(r)'
  BY Zenon DEF Accounted

\* The obligations of Close are kept as long as no Runner it has found comes back.
LEMMA CloserStays ==
  ASSUME CloserOK, closer' = closer, closer.pc # "open" => Building' \subseteq Building,
         closer.pc # "open" => \A r \in closer.mine : runner[r].state = "closed" => runner'[r].state = "closed"
  PROVE  CloserOK'
  BY Zenon DEF CloserOK

\* No step loses sight of an open Runner.
LEMMA AccountsKeep ==
  ASSUME AccountInv, Next
  PROVE  AccountInv'
<1>a. /\ LeaseInv /\ RegistryTypeOK /\ BuildsOK
      /\ \A c \in Caller : CallerOK(c)
      /\ \A r \in Runner : Lent(r) /\ Accounted(r)
      /\ InMapIsOpen /\ ListedIsFree /\ ClosedIsEmpty
      /\ LentIsInMap /\ BuiltIsMissing /\ CloserOK
  BY Zenon DEF AccountInv, LeaseInv, SlotInv
<1>b. LeaseInv'  BY <1>a, LeasesKeep, Zenon
<1>c. Step  BY <1>a, NextIsStep, Zenon
<1>d. \A c \in Caller : caller[c].pc # "closing" => caller[c].todo = {}  BY <1>a, Zenon DEF CallerOK
<1>e. closer.mine \subseteq Runner /\ closer.wait \subseteq Runner  BY <1>a, Zenon DEF RegistryTypeOK, CloserRec
<1>f. entries' = entries => \A r \in Runner : InMap(r)' <=> InMap(r)  BY Zenon DEF InMap
<1>1. ASSUME NEW c \in Caller, WaitEffect(c) PROVE AccountInv'
  <2>1. \A r \in Runner : Leases(r)' = Leases(r)  BY <1>1, LeasesStay, Zenon DEF OnlyCaller, WaitEffect
  <2>2. \A r \in Runner : Listed(r) => Listed(r)'  BY <1>d, <1>1, Zenon DEF OnlyCaller, Listed, WaitEffect
  <2>3. \A r \in Runner : Accounted(r)'  BY <1>a, <1>f, <1>1, <2>1, <2>2, AccountStays, Zenon DEF WaitEffect
  <2>4. LentIsInMap' /\ BuiltIsMissing'  BY <1>a, <1>f, <1>1, <2>1, Zenon DEF LentIsInMap, BuiltIsMissing, WaitEffect
  <2>5. CloserOK'  BY <1>a, <1>1, CloserStays, Zenon DEF Building, WaitEffect
  <2> QED  BY <1>b, <2>3, <2>4, <2>5, Zenon DEF AccountInv
<1>2. ASSUME NEW c \in Caller, NEW k \in Key, NEW e \in Runner, HitEffect(c, k, e) PROVE AccountInv'
  <2>1. \A r \in Runner : Leases(r) \subseteq Leases(r)' /\ (r # e => Leases(r)' = Leases(r))
    BY <1>2, Zenon DEF Leases, OnlyCaller, HitEffect
  <2>2. \A r \in Runner : Listed(r) => Listed(r)'  BY <1>d, <1>2, Zenon DEF OnlyCaller, Listed, HitEffect
  <2>3. \A r \in Runner : runner'[r].state = runner[r].state /\ runner'[r].dropped = runner[r].dropped
    BY <1>2, Zenon DEF Counts, HitEffect
  <2>4. \A r \in Runner : Accounted(r)'  BY <1>a, <1>f, <1>2, <2>1, <2>2, <2>3, AccountStays, Zenon DEF HitEffect
  <2>5. LentIsInMap'  BY <1>a, <1>f, <1>2, <2>1, <2>3 DEF LentIsInMap, InMap, HitEffect
  <2>6. BuiltIsMissing'  BY <1>a, <1>2, Zenon DEF BuiltIsMissing, HitEffect
  <2>7. CloserOK'  BY <1>a, <1>e, <1>2, <2>3, CloserStays, Zenon DEF Building, HitEffect
  <2> QED  BY <1>b, <2>4, <2>5, <2>6, <2>7, Zenon DEF AccountInv
<1>3. ASSUME NEW c \in Caller, NEW k \in Key, NEW out \in SUBSET Idle, MissEffect(c, k, out)
      PROVE  AccountInv'
  <2>1. \A r \in Runner : Leases(r)' = Leases(r)  BY <1>3, LeasesStay, Zenon DEF OnlyCaller, MissEffect
  <2>2. \A r \in Runner : (Listed(r) => Listed(r)') /\ (r \in out => Listed(r)')
    BY <1>d, <1>3, Zenon DEF OnlyCaller, Listed, MissEffect
  <2>3. /\ \A l \in Key : entries'[l] = IF entries[l] \in out THEN NoOne ELSE entries[l]
        /\ \A r \in Runner : /\ runner'[r].state = runner[r].state
                             /\ runner'[r].dropped <=> (runner[r].dropped \/ r \in out)
    BY <1>3, Zenon DEF Takes, MissEffect
  <2>4. \A r \in Runner : InMap(r) => InMap(r)' \/ r \in out  BY <2>3, Zenon DEF InMap
  <2>5. \A r \in Runner : Accounted(r)'  BY <1>a, <1>3, <2>1, <2>2, <2>3, <2>4, AccountStays, Zenon DEF MissEffect
  <2>6. LentIsInMap'  BY <1>a, <2>1, <2>3, <2>4, Zenon DEF LentIsInMap
  <2>7. BuiltIsMissing'  BY <1>a, <1>3, <2>3 DEF BuiltIsMissing, RegistryTypeOK, MissEffect
  <2>8. CloserOK'  BY <1>a, <1>3, CloserStays, Zenon DEF ClosedIsEmpty, MissEffect
  <2> QED  BY <1>b, <2>5, <2>6, <2>7, <2>8, Zenon DEF AccountInv
<1>4. ASSUME NEW c \in Caller, NEW r \in Runner, CallerClosesEffect(c, r) PROVE AccountInv'
  <2>1. \A q \in Runner : Leases(q)' = Leases(q)  BY <1>4, LeasesStay, Zenon DEF OnlyCaller, CallerClosesEffect
  <2>2. \A q \in Runner \ {r} : Listed(q) => Listed(q)'  BY <1>4, Zenon DEF OnlyCaller, Listed, CallerClosesEffect
  <2>3. /\ runner'[r].state = "closed"
        /\ \A q \in Runner : /\ q # r => runner'[q].state = runner[q].state
                             /\ runner'[q].dropped = runner[q].dropped
    BY <1>4, Zenon DEF Shuts, CallerClosesEffect
  <2>4. \A q \in Runner \ {r} : Accounted(q)'  BY <1>a, <1>f, <1>4, <2>1, <2>2, <2>3, AccountStays, Zenon DEF CallerClosesEffect
  <2>5. \A q \in Runner : Accounted(q)'  BY <2>3, <2>4, Zenon DEF Accounted
  <2>6. LentIsInMap' /\ BuiltIsMissing'  BY <1>a, <1>f, <1>4, <2>1, <2>3, Zenon DEF LentIsInMap, BuiltIsMissing, CallerClosesEffect
  <2>7. CloserOK'  BY <1>a, <1>e, <1>4, <2>3, CloserStays, Zenon DEF Building, CallerClosesEffect
  <2> QED  BY <1>b, <2>5, <2>6, <2>7, Zenon DEF AccountInv
<1>5. ASSUME NEW c \in Caller, NEW k \in Key, FailEffect(c, k) PROVE AccountInv'
  <2>1. \A r \in Runner : Leases(r)' = Leases(r)  BY <1>5, LeasesStay, Zenon DEF Wakes, FailEffect
  <2>2. \A r \in Runner : Listed(r) => Listed(r)'  BY <1>d, <1>5, Zenon DEF Wakes, Listed, FailEffect
  <2>3. \A r \in Runner : Accounted(r)'  BY <1>a, <1>f, <1>5, <2>1, <2>2, AccountStays, Zenon DEF FailEffect
  <2>4. LentIsInMap'  BY <1>a, <1>f, <1>5, <2>1, Zenon DEF LentIsInMap, FailEffect
  <2>5. BuiltIsMissing'  BY <1>a, <1>5, Zenon DEF BuiltIsMissing, Wakes, FailEffect
  <2>6. CloserOK'  BY <1>a, <1>5, CloserStays, Zenon DEF Building, Wakes, FailEffect
  <2> QED  BY <1>b, <2>3, <2>4, <2>5, <2>6, Zenon DEF AccountInv
<1>6. ASSUME NEW c \in Caller, NEW k \in Key, NEW r \in Runner, KeepEffect(c, k, r)
      PROVE  AccountInv'
  <2>1. pending[k] = c /\ entries[k] = NoOne
    BY <1>a, <1>6, RegistryAssumption DEF BuildsOK, Builds, BuiltIsMissing, KeepEffect
  <2>2. InMap(r)' /\ \A q \in Runner : InMap(q) => InMap(q)'
    BY <1>a, <1>6, <2>1, RegistryAssumption DEF InMap, RegistryTypeOK, KeepEffect
  <2>3. \A q \in Runner \ {r} : Leases(q)' = Leases(q)  BY <1>6, Zenon DEF Leases, Wakes, KeepEffect
  <2>4. \A q \in Runner : Listed(q) => Listed(q)'  BY <1>d, <1>6, Zenon DEF Wakes, Listed, KeepEffect
  <2>5. \A q \in Runner \ {r} : runner'[q] = runner[q]  BY <1>6, Zenon DEF Makes, KeepEffect
  <2>6. \A q \in Runner \ {r} : Accounted(q)'  BY <1>a, <1>6, <2>2, <2>3, <2>4, <2>5, AccountStays, Zenon DEF KeepEffect
  <2>7. \A q \in Runner : Accounted(q)'  BY <2>2, <2>6, Zenon DEF Accounted
  <2>8. LentIsInMap'  BY <1>a, <2>2, <2>3, <2>5, Zenon DEF LentIsInMap
  <2>9. BuiltIsMissing'  BY <1>a, <1>6, Zenon DEF BuiltIsMissing, Wakes, RegistryTypeOK, KeepEffect
  <2>10. CloserOK'  BY <1>a, <1>6, CloserStays, Zenon DEF ClosedIsEmpty, KeepEffect
  <2> QED  BY <1>b, <2>7, <2>8, <2>9, <2>10, Zenon DEF AccountInv
<1>7. ASSUME NEW c \in Caller, NEW k \in Key, NEW r \in Runner, DiscardEffect(c, k, r)
      PROVE  AccountInv'
  <2>1. \A q \in Runner : Leases(q)' = Leases(q)  BY <1>7, LeasesStay, Zenon DEF Wakes, DiscardEffect
  <2>2. Listed(r)' /\ \A q \in Runner : Listed(q) => Listed(q)'  BY <1>d, <1>7, Zenon DEF Wakes, Listed, DiscardEffect
  <2>3. runner[r].state = "unmade" /\ \A q \in Runner \ {r} : runner'[q] = runner[q]  BY <1>7, Zenon DEF Makes, DiscardEffect
  <2>4. \A q \in Runner \ {r} : Accounted(q)'  BY <1>a, <1>f, <1>7, <2>1, <2>2, <2>3, AccountStays, Zenon DEF DiscardEffect
  <2>5. \A q \in Runner : Accounted(q)'  BY <2>2, <2>4, Zenon DEF Accounted
  <2>6. LentIsInMap'
    <3>1. Leases(r) = {}  BY <1>a, <2>3, Zenon DEF Lent
    <3> QED  BY <1>a, <1>f, <1>7, <2>1, <2>3, <3>1, Zenon DEF LentIsInMap, DiscardEffect
  <2>7. BuiltIsMissing'  BY <1>a, <1>7, Zenon DEF BuiltIsMissing, Wakes, DiscardEffect
  <2>8. CloserOK'
    <3>1. Building' \subseteq Building  BY <1>7, Zenon DEF Building, Wakes, DiscardEffect
    <3> QED  BY <1>a, <1>e, <1>7, <2>3, <3>1, CloserStays, Zenon DEF DiscardEffect
  <2> QED  BY <1>b, <2>5, <2>6, <2>7, <2>8, Zenon DEF AccountInv
<1>8. ASSUME NEW c \in Caller, NEW r \in Runner, ReleaseEffect(c, r) PROVE AccountInv'
  <2>1. /\ Leases(r)' = Leases(r) \ {c} /\ c \in Leases(r)
        /\ \A q \in Runner \ {r} : Leases(q)' = Leases(q)
    BY <1>8, Zenon DEF Leases, OnlyCaller, ReleaseEffect
  <2>2. \A q \in Runner : runner'[q].state = runner[q].state /\ runner'[q].dropped = runner[q].dropped
    BY <1>8, Zenon DEF Counts, ReleaseEffect
  <2>3. \A q \in Runner : Listed(q) => Listed(q)'  BY <1>d, <1>8, Zenon DEF OnlyCaller, Listed, ReleaseEffect
  <2>4. Leases(r)' # {} \/ InMap(r)' \/ Listed(r)'
    <3>1. CASE caller'[c].todo = {r}  BY <3>1, Zenon DEF Listed
    <3>2. CASE runner[r].refs = 1 /\ ~runner[r].dropped  BY <1>a, <1>f, <1>8, <2>1, <3>2, Zenon DEF LentIsInMap, ReleaseEffect
    <3>3. CASE runner[r].refs # 1
      <4>1. IsFiniteSet(Leases(r)) /\ Cardinality(Leases(r)) # 1  BY <1>a, <3>3, Zenon DEF Lent
      <4>2. Leases(r) # {c}  BY <4>1, FS_Singleton, Zenon
      <4> QED  BY <2>1, <4>2, Zenon
    <3> QED  BY <1>8, <3>1, <3>2, <3>3, Zenon DEF ReleaseEffect
  <2>5. \A q \in Runner : Accounted(q)'  BY <1>a, <1>f, <1>8, <2>1, <2>2, <2>3, <2>4, AccountStays, Zenon DEF ReleaseEffect
  <2>6. LentIsInMap' /\ BuiltIsMissing'  BY <1>a, <1>f, <1>8, <2>1, <2>2, Zenon DEF LentIsInMap, BuiltIsMissing, ReleaseEffect
  <2>7. CloserOK'  BY <1>a, <1>e, <1>8, <2>2, CloserStays, Zenon DEF Building, ReleaseEffect
  <2> QED  BY <1>b, <2>5, <2>6, <2>7, Zenon DEF AccountInv
<1>9. ASSUME NEW K \in SUBSET Key, NEW out \in SUBSET Runner, InvalidateEffect(K, out)
      PROVE  AccountInv'
  <2>1. \A r \in Runner : Leases(r)' = Leases(r)  BY <1>9, Zenon DEF Leases, InvalidateEffect
  <2>2. \A r \in Runner : Listed(r) => Listed(r)'  BY <1>9, Zenon DEF Listed, InvalidateEffect
  <2>3. /\ \A l \in Key : entries'[l] = IF entries[l] \in out THEN NoOne ELSE entries[l]
        /\ \A r \in Runner : /\ runner'[r].state = runner[r].state
                             /\ runner'[r].dropped <=> (runner[r].dropped \/ r \in out)
    BY <1>9, Zenon DEF Takes, InvalidateEffect
  <2>4. \A r \in Runner : InMap(r) => InMap(r)' \/ r \in out  BY <2>3, Zenon DEF InMap
  <2>5. \A r \in out : Listed(r)' \/ Leases(r)' # {}
    <3>1. \A r \in out : runner[r].refs = 0 => Listed(r)'  BY <1>9, Zenon DEF Listed, InvalidateEffect
    <3> QED  BY <1>a, <2>1, <3>1, CountTells, Zenon
  <2>6. \A r \in Runner : Accounted(r)'  BY <1>a, <1>9, <2>1, <2>2, <2>3, <2>4, <2>5, AccountStays, Zenon DEF InvalidateEffect
  <2>7. LentIsInMap'  BY <1>a, <2>1, <2>3, <2>4, Zenon DEF LentIsInMap
  <2>8. BuiltIsMissing'  BY <1>a, <1>9, <2>3, Zenon DEF BuiltIsMissing, InvalidateEffect
  <2>9. CloserOK'  BY <1>a, <1>9, CloserStays, Zenon DEF ClosedIsEmpty, InvalidateEffect
  <2> QED  BY <1>b, <2>6, <2>7, <2>8, <2>9, Zenon DEF AccountInv
<1>10. ASSUME NEW r \in Runner, InvalidateClosesEffect(r) PROVE AccountInv'
  <2>1. \A q \in Runner : Leases(q)' = Leases(q)  BY <1>10, Zenon DEF Leases, InvalidateClosesEffect
  <2>2. \A q \in Runner \ {r} : Listed(q) => Listed(q)' \/ q \in abandoned'  BY <1>10, Zenon DEF Listed, InvalidateClosesEffect
  <2>3. /\ runner'[r].state = "closed"
        /\ \A q \in Runner : /\ q # r => runner'[q].state = runner[q].state
                             /\ runner'[q].dropped = runner[q].dropped
    BY <1>10, Zenon DEF Shuts, InvalidateClosesEffect
  <2>4. \A q \in Runner \ {r} : Accounted(q)'  BY <1>a, <1>f, <1>10, <2>1, <2>2, <2>3, AccountStays, Zenon DEF InvalidateClosesEffect
  <2>5. \A q \in Runner : Accounted(q)'  BY <2>3, <2>4, Zenon DEF Accounted
  <2>6. LentIsInMap' /\ BuiltIsMissing'  BY <1>a, <1>f, <1>10, <2>1, <2>3, Zenon DEF LentIsInMap, BuiltIsMissing, InvalidateClosesEffect
  <2>7. CloserOK'  BY <1>a, <1>e, <1>10, <2>3, CloserStays, Zenon DEF Building, InvalidateClosesEffect
  <2> QED  BY <1>b, <2>5, <2>6, <2>7, Zenon DEF AccountInv
<1>11. ASSUME NEW out \in SUBSET Runner, BeginCloseEffect(out) PROVE AccountInv'
  <2>1. \A r \in Runner : Leases(r)' = Leases(r)  BY <1>11, Zenon DEF Leases, BeginCloseEffect
  <2>2. closer.todo = {} /\ closer.wait = {}  BY <1>a, <1>11, Zenon DEF CloserOK, BeginCloseEffect
  <2>3. \A r \in Runner : Listed(r) => Listed(r)'  BY <1>11, <2>2, Zenon DEF Listed, BeginCloseEffect
  <2>4. /\ \A l \in Key : entries'[l] = IF entries[l] \in out THEN NoOne ELSE entries[l]
        /\ \A r \in Runner : /\ runner'[r].state = runner[r].state
                             /\ runner'[r].dropped <=> (runner[r].dropped \/ r \in out)
    BY <1>11, Zenon DEF Takes, BeginCloseEffect
  <2>5. \A r \in Runner : InMap(r) => InMap(r)' \/ r \in out  BY <2>4, Zenon DEF InMap
  <2>6. \A r \in out : Listed(r)' \/ r \in closer'.wait  BY <1>11, Zenon DEF Listed, BeginCloseEffect
  <2>7. \A r \in Runner : Accounted(r)'  BY <1>a, <1>11, <2>1, <2>2, <2>3, <2>4, <2>5, <2>6, AccountStays, Zenon DEF BeginCloseEffect
  <2>8. LentIsInMap'  BY <1>a, <2>1, <2>4, <2>5, Zenon DEF LentIsInMap
  <2>9. BuiltIsMissing'  BY <1>a, <1>11, <2>4, Zenon DEF BuiltIsMissing, BeginCloseEffect
  <2>10. CloserOK'  BY <1>11, Zenon DEF CloserOK, BeginCloseEffect
  <2> QED  BY <1>b, <2>7, <2>8, <2>9, <2>10, Zenon DEF AccountInv
<1>12. ASSUME NEW r \in Runner, CloseClosesEffect(r) PROVE AccountInv'
  <2>1. \A q \in Runner : Leases(q)' = Leases(q)  BY <1>12, Zenon DEF Leases, CloseClosesEffect
  <2>2. \A q \in Runner \ {r} : Listed(q) => Listed(q)' \/ q \in closer'.wait  BY <1>12, Zenon DEF Listed, CloseClosesEffect
  <2>3. /\ runner'[r].state = "closed"
        /\ \A q \in Runner : /\ q # r => runner'[q].state = runner[q].state
                             /\ runner'[q].dropped = runner[q].dropped
    BY <1>12, Zenon DEF Shuts, CloseClosesEffect
  <2>4. \A q \in Runner : Accounted(q)'  BY <1>a, <1>f, <1>12, <2>1, <2>2, <2>3, Zenon DEF Accounted, CloseClosesEffect
  <2>5. LentIsInMap' /\ BuiltIsMissing'  BY <1>a, <1>f, <1>12, <2>1, <2>3, Zenon DEF LentIsInMap, BuiltIsMissing, CloseClosesEffect
  <2>6. CloserOK'  BY <1>a, <1>e, <1>12, <2>3, Zenon DEF CloserOK, CloseClosesEffect
  <2> QED  BY <1>b, <2>4, <2>5, <2>6, Zenon DEF AccountInv
<1>13. ASSUME NEW pc \in {"ok", "timeout"}, CloseEndsEffect(pc) PROVE AccountInv'
  <2>1. \A r \in Runner : Leases(r)' = Leases(r) /\ (Listed(r) <=> Listed(r)')  BY <1>13, Zenon DEF Leases, Listed, CloseEndsEffect
  <2>2. \A r \in Runner : Accounted(r)'  BY <1>a, <1>f, <1>13, <2>1, Zenon DEF Accounted, CloseEndsEffect
  <2>3. LentIsInMap' /\ BuiltIsMissing'  BY <1>a, <1>f, <1>13, <2>1, Zenon DEF LentIsInMap, BuiltIsMissing, CloseEndsEffect
  <2>4. CloserOK'  BY <1>a, <1>13, Zenon DEF CloserOK, Building, CloseEndsEffect
  <2> QED  BY <1>b, <2>2, <2>3, <2>4, Zenon DEF AccountInv
<1> QED  BY <1>1, <1>2, <1>3, <1>4, <1>5, <1>6, <1>7, <1>8, <1>9, <1>10, <1>11, <1>12, <1>13, <1>c, Zenon DEF Step

\* No Runner is lost, whatever is evicted, invalidated, cancelled or closed, except
\* by an InvalidateMatching that gives up; and a Close that reports success has
\* closed all it found.
THEOREM RunnersAreAccounted == Spec => []RunnersAccounted
<1>1. AccountInv /\ [Next]_vars => AccountInv'
  <2> SUFFICES ASSUME AccountInv, UNCHANGED vars PROVE AccountInv'  BY AccountsKeep, Zenon
  <2>1. UNCHANGED <<entries, pending, closed, runner, caller, inval, closer, abandoned>>  BY Zenon DEF vars
  <2>2. LeaseInv'  BY LeaseInvKeeps, Zenon DEF AccountInv
  <2>3. \A r \in Runner : /\ Leases(r)' = Leases(r) /\ (Listed(r)' <=> Listed(r))
                          /\ InMap(r)' <=> InMap(r)
    BY <2>1, Zenon DEF Leases, Listed, InMap
  <2>4. \A r \in Runner : Accounted(r)'  BY <2>1, <2>3, Zenon DEF AccountInv, Accounted
  <2>5. LentIsInMap' /\ BuiltIsMissing' /\ CloserOK'
    BY <2>1, <2>3, Zenon DEF AccountInv, LentIsInMap, BuiltIsMissing, CloserOK, Building
  <2> QED  BY <2>2, <2>4, <2>5, Zenon DEF AccountInv
<1>2. AccountInv => RunnersAccounted
  <2> SUFFICES ASSUME AccountInv PROVE RunnersAccounted  BY Zenon
  <2>1. (\A r \in Runner : Accounted(r)) /\ CloserOK /\ ClosedIsEmpty  BY Zenon DEF AccountInv, LeaseInv
  <2>2. ASSUME NEW r \in Runner, runner[r].state = "open"
        PROVE  \/ \E k \in Key : entries[k] = r
               \/ Leases(r) # {}
               \/ \E c \in Caller : r \in caller[c].todo
               \/ r \in inval \cup closer.todo \cup closer.wait \cup abandoned
    BY <2>1, <2>2, Zenon DEF Accounted, InMap, Listed
  <2>3. closer.pc = "ok" => /\ Building = {} /\ Cached = {}
                            /\ \A r \in closer.mine : runner[r].state = "closed"
    BY <2>1, Zenon DEF CloserOK, ClosedIsEmpty
  <2> QED  BY <2>2, <2>3, Zenon DEF RunnersAccounted
<1> QED  BY AccountsStart, <1>1, <1>2, PTL DEF Spec

-----------------------------------------------------------------------------
(* Invalidation *)

\* What the map holds, and what is being built and not marked, is of the latest
\* generation of its key.
MapIsFresh == \A k \in Key : entries[k] # NoOne => runner[entries[k]].gen = gen[k]

BuildIsFresh(c) ==
  Builds(c) /\ caller[c].key \notin spoiled => caller[c].since = gen[caller[c].key]

FreshInv == LeaseInv /\ MapIsFresh /\ \A c \in Caller : BuildIsFresh(c)

\* Nobody but c obtains a lease, and c only one on a Runner of the generation of
\* its key.
LeasesFreshly(c) == \A d \in Caller :
  caller[d].pc # "leased" /\ caller'[d].pc = "leased" =>
    d = c /\ runner'[caller'[d].runner].gen = gen[caller'[d].key]

\* The map stays fresh while entries only leave it.
LEMMA MapStaysFresh ==
  ASSUME RegistryTypeOK, MapIsFresh,
         \A k \in Key : entries'[k] # NoOne => entries'[k] = entries[k] /\ gen'[k] = gen[k],
         \A r \in Runner : runner'[r].gen = runner[r].gen \/ ~InMap(r)
  PROVE  MapIsFresh'
<1> SUFFICES ASSUME NEW k \in Key, entries'[k] # NoOne PROVE runner'[entries'[k]].gen = gen'[k]
  BY Zenon DEF MapIsFresh
<1>1. PICK r \in Runner : r = entries[k] /\ r = entries'[k]  BY Zenon DEF RegistryTypeOK
<1>2. InMap(r)  BY <1>1, Zenon DEF InMap
<1> QED  BY <1>1, <1>2, Zenon DEF MapIsFresh

\* The end of the build of c leaves the other builds fresh.
LEMMA WakesStaysFresh ==
  ASSUME RegistryTypeOK, BuildsOK, \A d \in Caller : BuildIsFresh(d), gen' = gen,
         NEW c \in Caller, caller[c].pc = "build", Wakes(c, caller[c].key), ~Builds(c)'
  PROVE  \A d \in Caller : BuildIsFresh(d)'
<1>1. PICK k \in Key : k = caller[c].key /\ pending[k] = c  BY Zenon DEF BuildsOK, Builds
<1>2. ASSUME NEW d \in Caller \ {c}, Builds(d)', caller'[d].key \notin spoiled'
      PROVE  caller'[d].since = gen'[caller'[d].key]
  <2>1. Builds(d) /\ caller'[d].key = caller[d].key /\ caller'[d].since = caller[d].since
    BY <1>1, <1>2, Zenon DEF Builds, Wakes
  <2>2. caller[d].key # k  BY <1>1, <2>1, Zenon DEF BuildsOK
  <2>3. caller[d].key \notin spoiled  BY <1>1, <1>2, <2>1, <2>2, Zenon DEF Wakes
  <2> QED  BY <2>1, <2>3, Zenon DEF BuildIsFresh
<1> QED  BY <1>2, Zenon DEF BuildIsFresh

\* Every step keeps it so, and lends only what is fresh.
LEMMA FreshKeeps ==
  ASSUME FreshInv, Next
  PROVE  FreshInv' /\ \E c \in Caller \cup {NoOne} : LeasesFreshly(c)
<1>a. /\ LeaseInv /\ RegistryTypeOK /\ BuildsOK
      /\ \A c \in Caller : CallerOK(c) /\ BuildIsFresh(c)
      /\ \A r \in Runner : Lent(r)
      /\ InMapIsOpen /\ ListedIsFree /\ ClosedIsEmpty /\ MapIsFresh
  BY Zenon DEF FreshInv, LeaseInv, SlotInv
<1>b. LeaseInv'  BY <1>a, LeasesKeep, Zenon
<1>c. Step  BY <1>a, NextIsStep, Zenon
<1>d. \A r \in Runner : runner[r].state = "unmade" => ~InMap(r)
  BY <1>a, RegistryAssumption, Zenon DEF InMap, InMapIsOpen
<1>e. ASSUME UNCHANGED <<entries, gen>>, \A r \in Runner : runner'[r].gen = runner[r].gen \/ ~InMap(r)
      PROVE  MapIsFresh'
  BY <1>a, <1>e, MapStaysFresh, Zenon
<1>f. ASSUME NEW c \in Caller, OnlyCaller(c), UNCHANGED <<spoiled, gen>>, BuildIsFresh(c)'
      PROVE  \A d \in Caller : BuildIsFresh(d)'
  BY <1>a, <1>f, Zenon DEF OnlyCaller, BuildIsFresh, Builds
<1>1. ASSUME NEW c \in Caller, WaitEffect(c) PROVE FreshInv' /\ LeasesFreshly(c)
  <2>1. \A d \in Caller : BuildIsFresh(d)'  BY <1>f, <1>1, Zenon DEF BuildIsFresh, Builds, WaitEffect
  <2> QED  BY <1>b, <1>e, <1>1, <2>1, Zenon DEF FreshInv, LeasesFreshly, OnlyCaller, WaitEffect
<1>2. ASSUME NEW c \in Caller, NEW k \in Key, NEW e \in Runner, HitEffect(c, k, e)
      PROVE  FreshInv' /\ LeasesFreshly(c)
  <2>1. \A r \in Runner : runner'[r].gen = runner[r].gen  BY <1>2, Zenon DEF Counts, HitEffect
  <2>2. \A d \in Caller : BuildIsFresh(d)'  BY <1>f, <1>2, Zenon DEF BuildIsFresh, Builds, HitEffect
  <2>3. runner'[e].gen = gen[k]  BY <1>a, <1>2, <2>1, RegistryAssumption, Zenon DEF MapIsFresh, HitEffect
  <2>4. LeasesFreshly(c)  BY <1>2, <2>3, Zenon DEF LeasesFreshly, OnlyCaller, HitEffect
  <2> QED  BY <1>b, <1>e, <1>2, <2>1, <2>2, <2>4, Zenon DEF FreshInv, HitEffect
<1>3. ASSUME NEW c \in Caller, NEW k \in Key, NEW out \in SUBSET Idle, MissEffect(c, k, out)
      PROVE  FreshInv' /\ LeasesFreshly(c)
  <2>1. \A d \in Caller : BuildIsFresh(d)'  BY <1>f, <1>3, Zenon DEF BuildIsFresh, Builds, MissEffect
  <2>2. MapIsFresh'  BY <1>a, <1>3, MapStaysFresh, Zenon DEF Takes, MissEffect
  <2>3. caller'[c].pc # "leased"  BY <1>3, Zenon DEF MissEffect
  <2> QED  BY <1>b, <1>3, <2>1, <2>2, <2>3, Zenon DEF FreshInv, LeasesFreshly, OnlyCaller, MissEffect
<1>4. ASSUME NEW c \in Caller, NEW r \in Runner, CallerClosesEffect(c, r)
      PROVE  FreshInv' /\ LeasesFreshly(c)
  <2>1. BuildIsFresh(c)'  BY <1>a, <1>4, Zenon DEF BuildIsFresh, Builds, CallerClosesEffect
  <2>2. \A d \in Caller : BuildIsFresh(d)'  BY <1>f, <1>4, <2>1, Zenon DEF CallerClosesEffect
  <2>3. MapIsFresh'  BY <1>e, <1>4, Zenon DEF Shuts, CallerClosesEffect
  <2>4. caller'[c].pc # "leased"  BY <1>4, Zenon DEF CallerClosesEffect
  <2> QED  BY <1>b, <1>4, <2>2, <2>3, <2>4, Zenon DEF FreshInv, LeasesFreshly, OnlyCaller, CallerClosesEffect
<1>5. ASSUME NEW c \in Caller, NEW k \in Key, FailEffect(c, k) PROVE FreshInv' /\ LeasesFreshly(c)
  <2>1. \A d \in Caller : BuildIsFresh(d)'  BY <1>a, <1>5, WakesStaysFresh, Zenon DEF Builds, FailEffect
  <2>2. LeasesFreshly(c)  BY <1>5, Zenon DEF LeasesFreshly, Wakes, FailEffect
  <2> QED  BY <1>b, <1>e, <1>5, <2>1, <2>2, Zenon DEF FreshInv, FailEffect
<1>6. ASSUME NEW c \in Caller, NEW k \in Key, NEW r \in Runner, KeepEffect(c, k, r)
      PROVE  FreshInv' /\ LeasesFreshly(c)
  <2>1. \A d \in Caller : BuildIsFresh(d)'  BY <1>a, <1>6, WakesStaysFresh, Zenon DEF Builds, KeepEffect
  <2>2. caller[c].since = gen[k]  BY <1>a, <1>6, Zenon DEF BuildIsFresh, Builds, KeepEffect
  <2>3. /\ runner'[r].gen = gen[k] /\ ~InMap(r)
        /\ \A q \in Runner \ {r} : runner'[q] = runner[q]
    BY <1>d, <1>6, <2>2, Zenon DEF Makes, KeepEffect
  <2>4. MapIsFresh'
    <3>1. \A l \in Key \ {k} : entries'[l] = entries[l] /\ entries[l] # r
      BY <1>a, <1>6, <2>3, Zenon DEF RegistryTypeOK, InMap, KeepEffect
    <3>2. entries'[k] = r /\ \A l \in Key : entries[l] # NoOne => entries[l] \in Runner
      BY <1>a, <1>6, Zenon DEF RegistryTypeOK, KeepEffect
    <3> QED  BY <1>a, <1>6, <2>3, <3>1, <3>2 DEF MapIsFresh, KeepEffect
  <2>5. LeasesFreshly(c)  BY <1>6, <2>3, Zenon DEF LeasesFreshly, Wakes, KeepEffect
  <2> QED  BY <1>b, <2>1, <2>4, <2>5, Zenon DEF FreshInv
<1>7. ASSUME NEW c \in Caller, NEW k \in Key, NEW r \in Runner, DiscardEffect(c, k, r)
      PROVE  FreshInv' /\ LeasesFreshly(c)
  <2>1. \A d \in Caller : BuildIsFresh(d)'  BY <1>a, <1>7, WakesStaysFresh, Zenon DEF Builds, DiscardEffect
  <2>2. MapIsFresh'  BY <1>d, <1>e, <1>7, Zenon DEF Makes, DiscardEffect
  <2>3. LeasesFreshly(c)  BY <1>7, Zenon DEF LeasesFreshly, Wakes, DiscardEffect
  <2> QED  BY <1>b, <2>1, <2>2, <2>3, Zenon DEF FreshInv
<1>8. ASSUME NEW c \in Caller, NEW r \in Runner, ReleaseEffect(c, r)
      PROVE  FreshInv' /\ LeasesFreshly(c)
  <2>1. \A d \in Caller : BuildIsFresh(d)'  BY <1>f, <1>8, Zenon DEF BuildIsFresh, Builds, ReleaseEffect
  <2>2. MapIsFresh'  BY <1>e, <1>8, Zenon DEF Counts, ReleaseEffect
  <2> QED  BY <1>b, <1>8, <2>1, <2>2, Zenon DEF FreshInv, LeasesFreshly, OnlyCaller, ReleaseEffect
<1>g. caller' = caller => LeasesFreshly(NoOne)  BY Zenon DEF LeasesFreshly
<1>9. ASSUME NEW K \in SUBSET Key, NEW out \in SUBSET Runner, InvalidateEffect(K, out)
      PROVE  FreshInv' /\ LeasesFreshly(NoOne)
  <2>1. MapIsFresh'  BY <1>a, <1>9, MapStaysFresh, Zenon DEF Takes, InvalidateEffect
  <2>2. ASSUME NEW c \in Caller, Builds(c), caller[c].key \notin spoiled'
        PROVE  caller[c].since = gen'[caller[c].key]
    <3>1. PICK k \in Key : k = caller[c].key /\ pending[k] = c  BY <1>a, <2>2, Zenon DEF BuildsOK
    <3>2. k \in Building  BY <3>1, RegistryAssumption, Zenon DEF Building
    <3> QED  BY <1>a, <1>9, <2>2, <3>1, <3>2, Zenon DEF BuildIsFresh, InvalidateEffect
  <2>3. \A c \in Caller : BuildIsFresh(c)'  BY <1>9, <2>2, Zenon DEF BuildIsFresh, Builds, InvalidateEffect
  <2> QED  BY <1>b, <1>g, <1>9, <2>1, <2>3, Zenon DEF FreshInv, InvalidateEffect
<1>h. ASSUME UNCHANGED <<caller, spoiled, gen>> PROVE \A c \in Caller : BuildIsFresh(c)'
  BY <1>a, <1>h, Zenon DEF BuildIsFresh, Builds
<1>10. ASSUME NEW r \in Runner, InvalidateClosesEffect(r) PROVE FreshInv' /\ LeasesFreshly(NoOne)
  <2>1. MapIsFresh'  BY <1>e, <1>10, Zenon DEF Shuts, InvalidateClosesEffect
  <2> QED  BY <1>b, <1>g, <1>h, <1>10, <2>1, Zenon DEF FreshInv, InvalidateClosesEffect
<1>11. ASSUME NEW out \in SUBSET Runner, BeginCloseEffect(out)
      PROVE  FreshInv' /\ LeasesFreshly(NoOne)
  <2>1. MapIsFresh'  BY <1>11, Zenon DEF MapIsFresh, BeginCloseEffect
  <2>2. \A c \in Caller : Builds(c) => caller[c].key \in Building
    BY <1>a, RegistryAssumption DEF BuildsOK, Building
  <2>3. \A c \in Caller : BuildIsFresh(c)'  BY <1>11, <2>2, Zenon DEF BuildIsFresh, Builds, BeginCloseEffect
  <2> QED  BY <1>b, <1>g, <1>11, <2>1, <2>3, Zenon DEF FreshInv, BeginCloseEffect
<1>12. ASSUME NEW r \in Runner, CloseClosesEffect(r) PROVE FreshInv' /\ LeasesFreshly(NoOne)
  <2>1. MapIsFresh'  BY <1>e, <1>12, Zenon DEF Shuts, CloseClosesEffect
  <2> QED  BY <1>b, <1>g, <1>h, <1>12, <2>1, Zenon DEF FreshInv, CloseClosesEffect
<1>13. ASSUME NEW pc \in {"ok", "timeout"}, CloseEndsEffect(pc)
      PROVE  FreshInv' /\ LeasesFreshly(NoOne)
  <2> QED  BY <1>b, <1>e, <1>g, <1>h, <1>13, Zenon DEF FreshInv, CloseEndsEffect
<1> QED  BY <1>1, <1>2, <1>3, <1>4, <1>5, <1>6, <1>7, <1>8, <1>9, <1>10, <1>11, <1>12, <1>13, <1>c, Zenon DEF Step

\* Once Invalidate has returned for a key, nobody obtains a Runner whose
\* construction began before, from the map or from a build that was under way.
THEOREM InvalidatedStaysUnused == Spec => InvalidatedIsNotReused
<1>1. Init => FreshInv
  <2> SUFFICES ASSUME Init PROVE FreshInv  BY Zenon
  <2>1. (\A k \in Key : entries[k] = NoOne) /\ \A c \in Caller : caller[c].pc = "idle"
    BY Zenon DEF Init, IdleCaller
  <2> QED  BY <2>1, LeasesStart, Zenon DEF FreshInv, MapIsFresh, BuildIsFresh, Builds
<1>2. FreshInv /\ [Next]_vars => FreshInv'
  <2> SUFFICES ASSUME FreshInv, UNCHANGED vars PROVE FreshInv'  BY FreshKeeps, Zenon
  <2>1. UNCHANGED <<entries, spoiled, runner, caller, gen>>  BY Zenon DEF vars
  <2>2. LeaseInv'  BY LeaseInvKeeps, Zenon DEF FreshInv
  <2> QED  BY <2>1, <2>2, Zenon DEF FreshInv, MapIsFresh, BuildIsFresh, Builds
<1>3. FreshInv /\ [Next]_vars =>
        [\A c \in Caller : caller[c].pc # "leased" /\ caller'[c].pc = "leased" =>
           runner'[caller'[c].runner].gen = gen[caller'[c].key]]_vars
  <2> SUFFICES ASSUME FreshInv, Next
               PROVE  \A c \in Caller : caller[c].pc # "leased" /\ caller'[c].pc = "leased" =>
                        runner'[caller'[c].runner].gen = gen[caller'[c].key]
    BY Zenon
  <2> QED  BY FreshKeeps, Zenon DEF LeasesFreshly
<1> QED  BY <1>1, <1>2, <1>3, PTL DEF Spec, InvalidatedIsNotReused

=============================================================================
