------------------------------ MODULE Plugins -------------------------------
(***************************************************************************)
(* The extension registry: the tables of commands, value resolvers and      *)
(* object extensions with their sorted name indices (src/src/shell.c), the  *)
(* plugin loader (src/src/plugin.c), the copies that command substitutions  *)
(* work on, and the cache of command completions (src/src/line_editor.c).   *)
(*                                                                          *)
(* shells is the main shell and, above it, the clone of each substitution   *)
(* that runs; the last one is the one that runs commands.  Pipeline stages  *)
(* are registered and found as value resolvers are.  A function pointer is  *)
(* the library whose code it points to; opened counts, for each library,    *)
(* the dlopen calls that have not been undone.                              *)
(***************************************************************************)
EXTENDS Integers, Sequences, FiniteSets, SequencesExt

CONSTANTS
  Libs,        \* plugin libraries, by their resolved path
  NoLib,       \* no library: the code of the shell itself
  MaxName,     \* names are 1 .. MaxName, in the order of strcmp
  Builtins,    \* names of the built-in commands and resolvers
  MaxPlugins,  \* ARKSH_MAX_PLUGINS
  MaxEntries,  \* ARKSH_MAX_COMMANDS, _VALUE_RESOLVERS, _EXTENSIONS
  MaxDepth,    \* bound on the nesting of substitutions
  MaxCalls,    \* bound on the registrations one plugin makes
  Offered      \* pairs of a kind and a name that plugins and users register

ASSUME BoundsAssumption ==
  /\ MaxName \in Nat /\ MaxPlugins \in Nat /\ MaxEntries \in Nat /\ MaxDepth \in Nat /\ MaxCalls \in Nat
  /\ Builtins \subseteq 1 .. MaxName
  /\ Cardinality(Builtins) <= MaxEntries
  /\ NoLib \notin Libs
  /\ Offered \subseteq {"command", "resolver", "extension"} \X (1 .. MaxName)

VARIABLES
  shells,    \* the main shell and the clones
  opened,    \* dlopen reference counts
  ph,        \* "ready", or where arksh_shell_load_plugin is: "query", "init"
  loading,   \* the library it loads
  calls,     \* registrations that its init has made
  cache,     \* s_command_completion_cache: names, or a stale one
  failed     \* ghost: libraries whose init has failed

vars == <<shells, opened, ph, loading, calls, cache, failed>>
load == <<ph, loading, calls>>

Names   == 1 .. MaxName
Indexed == {"command", "resolver"}
Kinds   == Indexed \cup {"extension"}

\* ArkshCommandDef, ArkshValueResolverDef, ArkshObjectExtension; owner is
\* owner_plugin_index + 1, and 0 for what is not a plugin's
Entry  == [name : Names, fn : Libs \cup {NoLib}, owner : 0 .. MaxPlugins]
Plugin == [lib : Libs, handle : BOOLEAN, active : BOOLEAN]
Shell  == [table : [Kinds -> Seq(Entry)], index : [Indexed -> Seq(Nat)], plugins : Seq(Plugin)]

Stale == {0}    \* a cache whose generation is not the shell's

-----------------------------------------------------------------------------
(* The sorted name indices *)

\* Mutant: the element that is inserted is only compared with its neighbour.
InsertOnce(t, idx, i) ==
  IF idx # <<>> /\ t[Last(idx)].name > t[i].name THEN Front(idx) \o <<i, Last(idx)>> ELSE Append(idx, i)

\* One round of the insertion sort of rebuild_sorted_name_index: entry i moves
\* left past the entries with greater names.
Insert(t, idx, i) ==
  LET before == {k \in DOMAIN idx : \A m \in k .. Len(idx) : t[idx[m]].name > t[i].name}
  IN  InsertAt(idx, Len(idx) + 1 - Cardinality(before), i)

Rebuilt(t) ==
  LET sorted[i \in 0 .. Len(t)] == IF i = 0 THEN <<>> ELSE Insert(t, sorted[i - 1], i)
  IN  sorted[Len(t)]

\* find_name_index_entry: binary search between l and r, the two of at; 0 when
\* the name is not found
Search(t, idx, n) ==
  LET found[at \in (0 .. Len(t)) \X (0 .. Len(t))] ==
        IF at[1] >= at[2] THEN 0
        ELSE LET mid == at[1] + (at[2] - at[1]) \div 2
                 m   == t[idx[mid + 1]].name
             IN  IF n = m THEN idx[mid + 1]
                 ELSE IF n < m THEN found[<<at[1], mid>>] ELSE found[<<mid + 1, at[2]>>]
  IN  found[<<0, Len(t)>>]

\* plugin_index_is_active
Active(s, e) == e.owner = 0 \/ (e.owner <= Len(s.plugins) /\ s.plugins[e.owner].active)

\* find_extension: from the last entry to the first
FindExtension(s, n) ==
  LET I == {i \in DOMAIN s.table["extension"] :
              s.table["extension"][i].name = n /\ Active(s, s.table["extension"][i])}
  IN  IF I = {} THEN 0 ELSE CHOOSE i \in I : \A j \in I : j <= i

\* arksh_shell_find_command, arksh_shell_find_value_resolver; 0: not found
Find(s, k, n) ==
  IF k = "extension" THEN FindExtension(s, n)
  ELSE LET i == Search(s.table[k], s.index[k], n)
       IN  IF i # 0 /\ Active(s, s.table[k][i]) THEN i ELSE 0

-----------------------------------------------------------------------------
(* Tables *)

Current == Last(shells)
Main    == Len(shells) = 1

Changes(s) == shells' = [shells EXCEPT ![Len(shells)] = s]

\* mark_completion_cache_dirty: the generation of a clone is its own.
Dirties == cache' = IF Main THEN Stale ELSE cache

\* Entry e is written at position i, which may be the next free one, and the
\* index of the table is rebuilt.
Stored(s, k, i, e) ==
  LET t == IF i <= Len(s.table[k]) THEN [s.table[k] EXCEPT ![i] = e] ELSE Append(s.table[k], e)
  IN  [s EXCEPT !.table[k] = t,
                !.index = IF k \in Indexed THEN [@ EXCEPT ![k] = Rebuilt(t)] ELSE @]

Holding(t, n) == {i \in DOMAIN t : t[i].name = n}

\* The position that registering a name writes to; 0: it is refused.  A command
\* is refused when the table is full or the name is taken, whoever has taken it;
\* anything else replaces what has the name.
Place(t, k, n) ==
  IF k = "command"
  THEN IF Len(t) < MaxEntries /\ Holding(t, n) = {} THEN Len(t) + 1 ELSE 0
  ELSE IF Holding(t, n) # {} THEN CHOOSE i \in Holding(t, n) : \A j \in Holding(t, n) : i <= j
  ELSE IF Len(t) < MaxEntries THEN Len(t) + 1 ELSE 0

-----------------------------------------------------------------------------
(* arksh_shell_load_plugin *)

\* The slot that is being filled, plugins[plugin_count], is not counted yet.
Slot == Len(Current.plugins) + 1

\* `plugin load l`: nothing happens when the table is full or l is in it
LoadOpens(l) ==
  /\ ph = "ready"
  /\ Slot <= MaxPlugins
  /\ \A i \in DOMAIN Current.plugins : Current.plugins[i].lib # l
  /\ opened' = [opened EXCEPT ![l] = @ + 1]
  /\ ph' = "query" /\ loading' = l
  /\ UNCHANGED <<shells, calls, cache, failed>>

Closes == opened' = [opened EXCEPT ![loading] = @ - 1]
Ready  == ph' = "ready" /\ loading' = NoLib /\ calls' = 0

\* A missing symbol, a failed query, a wrong ABI or missing capabilities
LoadRejected ==
  /\ ph = "query"
  /\ Closes /\ Ready
  /\ UNCHANGED <<shells, cache, failed>>

LoadInit ==
  /\ ph = "query"
  /\ ph' = "init"
  /\ UNCHANGED <<shells, opened, loading, calls, cache, failed>>

\* Mutant: what is registered belongs to the last plugin that is counted.
CountedSlot == Len(Current.plugins)

\* shell->loading_plugin_index
Owner == Slot

\* The plugin registers something, successfully.
Register(k, n) ==
  LET i == Place(Current.table[k], k, n)
  IN
  /\ ph = "init"
  /\ calls < MaxCalls
  /\ calls' = calls + 1
  /\ i # 0
  /\ Changes(Stored(Current, k, i, [name |-> n, fn |-> loading, owner |-> Owner]))
  /\ Dirties
  /\ UNCHANGED <<opened, ph, loading, failed>>

LoadSucceeds ==
  /\ ph = "init"
  /\ Changes([Current EXCEPT !.plugins = Append(@, [lib |-> loading, handle |-> TRUE, active |-> TRUE])])
  /\ Ready
  /\ UNCHANGED <<opened, cache, failed>>

\* The library is closed; what it has registered stays.
LoadFails ==
  /\ ph = "init"
  /\ failed' = failed \cup {loading}
  /\ Closes /\ Ready
  /\ UNCHANGED <<shells, cache>>

-----------------------------------------------------------------------------
(* Commands *)

\* Mutant: enable and disable do not touch the cache.
SetActiveQuietly(i, a) ==
  /\ ph = "ready"
  /\ Changes([Current EXCEPT !.plugins[i].active = a])
  /\ UNCHANGED <<opened, load, cache, failed>>

\* `plugin enable`, `plugin disable`
SetActive(i, a) ==
  /\ ph = "ready"
  /\ Changes([Current EXCEPT !.plugins[i].active = a])
  /\ Dirties
  /\ UNCHANGED <<opened, load, failed>>

\* `extend`: a block of the user's own
Extend(n) ==
  LET i == Place(Current.table["extension"], "extension", n)
  IN
  /\ ph = "ready"
  /\ i # 0
  /\ Changes(Stored(Current, "extension", i, [name |-> n, fn |-> NoLib, owner |-> 0]))
  /\ Dirties
  /\ UNCHANGED <<opened, load, failed>>

Visible(s) == {n \in Names : Find(s, "command", n) # 0}

\* collect_registered_command_matches, from the line editor
Complete ==
  /\ Main
  /\ ph = "ready"
  /\ cache' = IF cache = Stale
              THEN {Current.table["command"][Current.index["command"][i]].name :
                      i \in {j \in DOMAIN Current.index["command"] :
                               Active(Current, Current.table["command"][Current.index["command"][j]])}}
              ELSE cache
  /\ UNCHANGED <<shells, opened, load, failed>>

\* Mutant: the clone keeps the handles of the plugins it copies.
CopiedWithHandles(s) == s

\* arksh_shell_clone_subshell
Copied(s) ==
  [s EXCEPT !.plugins = [i \in DOMAIN @ |-> [@[i] EXCEPT !.handle = FALSE]],
            !.index   = [k \in Indexed |-> Rebuilt(s.table[k])]]

Clone ==
  /\ ph = "ready"
  /\ Len(shells) <= MaxDepth
  /\ shells' = Append(shells, Copied(Current))
  /\ UNCHANGED <<opened, load, cache, failed>>

\* The libraries that a shell closes when it is destroyed
Handles(s, l) == Cardinality({i \in DOMAIN s.plugins : s.plugins[i].lib = l /\ s.plugins[i].handle})

\* arksh_shell_destroy_subshell, and arksh_shell_destroy for the main shell
Destroy ==
  /\ ph = "ready"
  /\ shells' = Front(shells)
  /\ opened' = [l \in Libs |-> opened[l] - Handles(Current, l)]
  /\ UNCHANGED <<load, cache, failed>>

-----------------------------------------------------------------------------
Registered(names) == [i \in DOMAIN names |-> [name |-> names[i], fn |-> NoLib, owner |-> 0]]

\* arksh_shell_init: the built-in commands and resolvers, in the order of the
\* source, which is not that of the names
Init ==
  /\ \E order \in {f \in [1 .. Cardinality(Builtins) -> Builtins] : \A i, j \in DOMAIN f : f[i] = f[j] => i = j} :
       shells = <<[table   |-> [k \in Kinds |-> IF k \in Indexed THEN Registered(order) ELSE <<>>],
                   index   |-> [k \in Indexed |-> Rebuilt(Registered(order))],
                   plugins |-> <<>>]>>
  /\ opened = [l \in Libs |-> 0]
  /\ ph = "ready" /\ loading = NoLib /\ calls = 0
  /\ cache = Stale
  /\ failed = {}

Next ==
  /\ shells # <<>>
  /\ \/ \E l \in Libs : LoadOpens(l)
     \/ LoadRejected \/ LoadInit \/ LoadSucceeds \/ LoadFails
     \/ \E o \in Offered : Register(o[1], o[2])
     \/ \E i \in DOMAIN Current.plugins, a \in BOOLEAN : SetActive(i, a)
     \/ \E o \in Offered : o[1] = "extension" /\ Extend(o[2])
     \/ Complete \/ Clone \/ Destroy

Spec == Init /\ [][Next]_vars

-----------------------------------------------------------------------------
(* Invariants *)

\* In the shell and in every clone, the binary search over the sorted index
\* finds exactly the names the table holds, whatever was registered, replaced
\* or copied, and each at its entry (shell.c:293, shell.c:417).
FindExact ==
  \A i \in DOMAIN shells : \A k \in Indexed, n \in Names :
    LET s == shells[i]
        p == Search(s.table[k], s.index[k], n)
    IN  Holding(s.table[k], n) = (IF p = 0 THEN {} ELSE {p})

\* A library is open once for each shell that will close it, and for the load
\* that is under way: rejected and failed loads, and substitutions that load
\* plugins of their own, neither leak it nor close one that is in use
\* (plugin.c:281, shell.c:3595, shell.c:3748).
OpenCount ==
  \A l \in Libs :
    opened[l] = Cardinality({i \in DOMAIN shells : Handles(shells[i], l) = 1})
                  + (IF loading = l THEN 1 ELSE 0)

\* What a lookup returns is code that is mapped, and enable and disable of a
\* plugin govern what that plugin has registered and nothing else, in every
\* clone, unless the library's init has once failed (shell.c:1253).
CallableLoaded ==
  \A i \in DOMAIN shells : \A k \in Kinds, n \in Names :
    LET s == shells[i]
        p == Find(s, k, n)
        e == s.table[k][p]
    IN  (p # 0 /\ e.fn \notin failed \cup {NoLib}) =>
          opened[e.fn] > 0 /\ e.owner # 0 /\ s.plugins[e.owner].lib = e.fn

\* The completions that are cached are the commands the main shell would find,
\* unless an init has failed (shell.c:262, line_editor.c:720).
CacheFresh ==
  (failed = {} /\ ph = "ready" /\ cache # Stale /\ shells # <<>>) => cache = Visible(shells[1])
=============================================================================
