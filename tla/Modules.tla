-------------------------------- MODULE Modules --------------------------------
(***************************************************************************)
(* The list of loaded modules in which Symbolizer looks up an address        *)
(* (sanitizer_symbolizer_libcdep.cpp, LoadedModule of sanitizer_common.cpp). *)
(* It is read from the process' maps under mu_, and invalidated without it  *)
(* by the interceptors of dlopen and dlclose, where a runtime has them; one  *)
(* that has none reads the list again when an address is not in it.          *)
(* Libraries are loaded and unloaded meanwhile, also where another was.      *)
(***************************************************************************)
EXTENDS Integers, Sequences, SequencesExt, FiniteSets

CONSTANTS
  Names,       \* names of modules
  Addresses,   \* 0 .. n, at which modules may be
  Span,        \* addresses of a module: a range of one, and a range of the others
  Queries,     \* threads that symbolize
  MaxLoads,    \* bound: loads and unloads
  None

VARIABLES
  intercepted, \* SANITIZER_INTERCEPT_DLOPEN_DLCLOSE
  loaded,      \* the modules of the process: [name, base]
  told,        \* whether the last load or unload has been followed by InvalidateModuleList
  modules,     \* modules_: [full_name, base_address, ranges]
  fresh,       \* modules_fresh_
  holder,      \* who holds mu_
  query,       \* of each thread: where it is, and the address it asks for
  answer,      \* what it has got: [module_name, module_offset]
  steady,      \* modules loaded, and told of, from the beginning of a query on
  reading,     \* whether modules_ has been read and is not fresh yet
  missed,      \* whether an invalidation came meanwhile since the list was last read
  storage,     \* the names that ModuleNameOwner has copied
  loads

vars == <<intercepted, loaded, told, modules, fresh, holder, query, answer, steady, reading,
          missed, storage, loads>>
processVars == <<loaded, told, loads>>
listVars == <<modules, fresh, reading, missed>>
queryVars == <<holder, query, answer, storage>>

AtRest == [at |-> "idle", address |-> None, reloaded |-> FALSE]

Init ==
  /\ intercepted \in BOOLEAN
  /\ \E n \in Names : loaded = {[name |-> n, base |-> 0]}
  /\ told = TRUE /\ loads = 0
  /\ modules = <<>> /\ fresh = FALSE /\ reading = FALSE /\ missed = FALSE
  /\ holder = None /\ query = [q \in Queries |-> AtRest]
  /\ answer = [q \in Queries |-> None] /\ steady = [q \in Queries |-> {}]
  /\ storage = <<>>

Extent(m) == m.base .. m.base + Span - 1
Within(m, a) == a \in Extent(m)

------------------------------------------------------------------------------
(* The process *)

Dlopen(n, b) ==
  /\ told /\ loads < MaxLoads
  /\ n \notin {m.name : m \in loaded}
  /\ Extent([base |-> b]) \subseteq Addresses
  /\ \A m \in loaded : Extent(m) \cap Extent([base |-> b]) = {}
  /\ loaded' = loaded \cup {[name |-> n, base |-> b]}
  /\ told' = FALSE /\ loads' = loads + 1
  /\ UNCHANGED <<intercepted, listVars, queryVars, steady>>

Dlclose(m) ==
  /\ told /\ loads < MaxLoads
  /\ m \in loaded /\ Cardinality(loaded) > 1
  /\ loaded' = loaded \ {m}
  /\ told' = FALSE /\ loads' = loads + 1
  /\ steady' = [q \in Queries |-> steady[q] \ {m}]
  /\ UNCHANGED <<intercepted, listVars, queryVars>>

(* InvalidateModuleList, by the interceptor when the call has returned.      *)
InvalidateModuleList ==
  /\ ~told
  /\ told' = TRUE
  /\ IF intercepted THEN fresh' = FALSE /\ missed' = (missed \/ reading)
     ELSE UNCHANGED <<fresh, missed>>
  /\ UNCHANGED <<intercepted, loaded, loads, modules, reading, queryVars, steady>>

------------------------------------------------------------------------------
(* Symbolizer *)

(* LoadedModule::addAddressRange and set, for what is mapped of a module.    *)
Listed(m) ==
  [full_name |-> m.name, base_address |-> m.base,
   ranges |-> {[beg |-> m.base, end |-> m.base + 1],
               [beg |-> m.base + 1, end |-> m.base + Span]}]

(* SymbolizePC, SymbolizeData and GetModuleNameAndOffsetForPC take mu_.      *)
Lock(q, a) ==
  /\ query[q].at = "idle" /\ holder = None
  /\ holder' = q
  /\ query' = [query EXCEPT ![q] = [at |-> IF fresh THEN "search" ELSE "refresh",
                                       address |-> a, reloaded |-> ~fresh]]
  /\ steady' = [steady EXCEPT ![q] = IF told THEN loaded ELSE {}]
  /\ UNCHANGED <<intercepted, processVars, listVars, answer, storage>>

(* Mutant: what was in the list stays in it.                                *)
InitModules_Added == modules \o SetToSeq({Listed(m) : m \in loaded})

(* ListOfModules::init: the list is cleared, and filled from the maps.       *)
InitModules == SetToSeq({Listed(m) : m \in loaded})

RefreshModules(q) ==
  /\ query[q].at = "refresh"
  /\ modules' = InitModules
  /\ reading' = TRUE /\ missed' = FALSE
  /\ query' = [query EXCEPT ![q].at = "fresh"]
  /\ UNCHANGED <<intercepted, processVars, fresh, holder, answer, storage, steady>>

(* The end of RefreshModules, whatever has happened since.                  *)
SetFresh(q) ==
  /\ query[q].at = "fresh"
  /\ fresh' = TRUE
  /\ reading' = FALSE
  /\ query' = [query EXCEPT ![q].at = "search"]
  /\ UNCHANGED <<intercepted, processVars, modules, missed, holder, answer, storage, steady>>

(* LoadedModule::containsAddress *)
ContainsAddress(module, a) == \E r \in module.ranges : r.beg <= a /\ a < r.end

(* SearchForModule: the first in the list, or 0.                            *)
SearchForModule(a) ==
  SelectInSeq(modules, LAMBDA module : ContainsAddress(module, a))

(* GetOwnedCopy *)
Owned(name) == IF Contains(storage, name) THEN storage ELSE Append(storage, name)

(* FindModuleForAddress after the list is there.                            *)
FindModuleForAddress(q) ==
  /\ query[q].at = "search"
  /\ LET a == query[q].address
         i == SearchForModule(a)
     IN  \/ /\ i # 0
            /\ answer' = [answer EXCEPT ![q] =
                 [module_name |-> modules[i].full_name, module_offset |-> a - modules[i].base_address]]
            /\ storage' = Owned(modules[i].full_name)
            /\ query' = [query EXCEPT ![q].at = "answered"]
         \/ /\ i = 0 /\ ~intercepted /\ ~query[q].reloaded
            /\ query' = [query EXCEPT ![q].at = "refresh", ![q].reloaded = TRUE]
            /\ UNCHANGED <<answer, storage>>
         \/ /\ i = 0 /\ (intercepted \/ query[q].reloaded)
            /\ query' = [query EXCEPT ![q].at = "answered"]
            /\ UNCHANGED <<answer, storage>>
  /\ UNCHANGED <<intercepted, processVars, listVars, holder, steady>>

Unlock(q) ==
  /\ query[q].at = "answered"
  /\ holder' = None
  /\ query' = [query EXCEPT ![q] = AtRest]
  /\ answer' = [answer EXCEPT ![q] = None]
  /\ steady' = [steady EXCEPT ![q] = {}]
  /\ UNCHANGED <<intercepted, processVars, listVars, storage>>

Next ==
  \/ \E n \in Names, b \in Addresses : Dlopen(n, b)
  \/ \E m \in loaded : Dlclose(m)
  \/ InvalidateModuleList
  \/ \E q \in Queries :
       \/ \E a \in Addresses : Lock(q, a)
       \/ RefreshModules(q) \/ SetFresh(q) \/ FindModuleForAddress(q) \/ Unlock(q)

Spec == Init /\ [][Next]_vars

------------------------------------------------------------------------------
(* An address in a module that was loaded all along is found.  A runtime     *)
(* with interceptors finds it in that module and nowhere else, unless an     *)
(* invalidation came while the list was being read, which is lost.  One     *)
(* without may take it for a module that was there before: it reads the list *)
(* again only when it finds nothing.                                       *)
AnswersCurrent ==
  \A q \in Queries : query[q].at = "answered" =>
    \A m \in steady[q] : Within(m, query[q].address) =>
      /\ (intercepted /\ ~missed) =>
           answer[q] = [module_name |-> m.name, module_offset |-> query[q].address - m.base]
      /\ ~intercepted => answer[q] # None

(* A name that has been given out is copied once, and never freed with the   *)
(* list it was found in.                                                   *)
NamesOwned ==
  /\ IsInjective(storage)
  /\ \A q \in Queries : answer[q] # None => Contains(storage, answer[q].module_name)

==============================================================================
