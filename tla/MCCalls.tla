------------------------------- MODULE MCCalls -------------------------------
(***************************************************************************)
(* The parts of docker-gen that share no state with the event loop, each   *)
(* in the instance that TLC checks: the passes over the shared context,    *)
(* one debouncer with its clock, what is computed at the start, and the    *)
(* functions of the templates.  One of them runs in each behaviour; the    *)
(* others stay where they are.                                             *)
(***************************************************************************)
EXTENDS MCContextStore, MCDebounce, MCSelection, MCNginxQuote, Sorting, Addresses,
        DeepGet, ContainerID, MCContainerFilter

VARIABLE part               \* the one that runs

-------------------------------------------------------------------------------
(* Sorting: "" and four more strings, "09" and "9" of which are one number. *)

MCKeys    == {"", "09", "10", "1a", "9"}
MCNumbers == {"09", "10", "9"}
MCValue   == ("09" :> 9) @@ ("10" :> 10) @@ ("9" :> 9)
MCRank    == ("" :> 0) @@ ("09" :> 1) @@ ("10" :> 2) @@ ("1a" :> 3) @@ ("9" :> 4)
MCKeyLists == BoundedSeq(MCKeys, 4)

(* Addresses: 53/tcp, 53/udp and 80/tcp.                                   *)

MCPorts == {[port |-> 53, proto |-> 1], [port |-> 53, proto |-> 2],
            [port |-> 80, proto |-> 1]}

-------------------------------------------------------------------------------
(* DeepGet: a container with labels, some of whose names continue others', a *)
(* map of maps, a list, and pointers to it and to no value.                *)

MCKind ==
  [v \in {"container", "labels", "nested", "list", "pointer", "twice", "null",
          "x", "y", "z"} |->
     CASE v = "container" -> "struct"
       [] v \in {"labels", "nested"} -> "map"
       [] v = "list" -> "slice"
       [] v \in {"pointer", "twice", "null"} -> "pointer"
       [] OTHER -> "leaf"]

MCUnder ==
  [v \in DOMAIN MCKind |->
     CASE v = "container" -> (<<"a">> :> "labels") @@ (<<"b">> :> "nested")
       [] v = "labels"  -> (<<"a">> :> "x") @@ (<<"a", "b">> :> "y")
                             @@ (<<"b", "a">> :> "z") @@ (<<"b", "a", "a">> :> "x")
                             @@ (<<"b", "b", "c">> :> "y")
       [] v = "nested"  -> (<<"a">> :> "labels") @@ (<<"b", "a">> :> "list")
                             @@ (<<"a", "b">> :> "pointer") @@ (<<"c">> :> "null")
       [] v = "list"    -> (<<"a">> :> "container") @@ (<<"b">> :> "x")
       [] v = "pointer" -> <<>> :> "container"
       [] v = "twice"   -> <<>> :> "pointer"
       [] OTHER         -> <<>>]

MCValues == DOMAIN MCKind
MCPaths == BoundedSeq({"a", "b", "c"}, 5)

-------------------------------------------------------------------------------
(* ContainerID: two files of up to two lines.                              *)

IDLine(mount, ids) == [mount |-> mount, ids |-> ids]
At(x, anchor) == [id |-> x, anchor |-> anchor]

MCFileLists ==
  LET lines == {IDLine(FALSE, <<At("other", "none")>>),
                IDLine(FALSE, <<At("other", "none"), At("own", "none")>>),
                IDLine(TRUE, <<At("layer", "none"), At("own", "file")>>),
                IDLine(TRUE, <<At("own", "file"), At("other", "containers")>>),
                IDLine(TRUE, <<At("layer", "none"), At("own", "containers")>>),
                IDLine(TRUE, <<At("layer", "none")>>),
                TooLong}
  IN  BoundedSeq(BoundedSeq(lines, 2), 2)

-------------------------------------------------------------------------------
Parts == {"context", "debounce", "selection", "sorting", "addresses", "quote", "deepget",
          "id", "filter"}

\* A part that does not run is in an initial state of its own.
CallsInit ==
  /\ part \in Parts
  /\ StoreInit
  /\ DebounceInit /\ (part # "debounce" => wait = MCWait(0, 0))
  /\ \/ part = "selection" /\ Init
     \/ /\ part # "selection"
        /\ fn = "groupBy" /\ cmp = Nil /\ entries = <<>> /\ i = 0
        /\ groups = [k \in Strings |-> <<>>] /\ selected = <<>> /\ status = "loop"
  /\ \/ part = "sorting" /\ SortInit
     \/ /\ part # "sorting"
        /\ sorter = "sortStringsAsc" /\ keys = <<>> /\ order = <<>> /\ sorted = FALSE
  /\ \/ part = "addresses" /\ AddressInit
     \/ /\ part # "addresses"
        /\ published = <<>> /\ exposed = {} /\ todo = {} /\ source = "published"
        /\ addresses = <<>>
  /\ \/ part = "quote" /\ QuoteInit
     \/ part # "quote" /\ value = <<>> /\ results = <<>>
  /\ \/ part = "deepget" /\ DeepInit
     \/ /\ part # "deepget"
        /\ item = "x" /\ wanted = <<>> /\ at = "x" /\ path = <<>> /\ got = "looking"
  /\ \/ part = "id" /\ IDInit
     \/ /\ part # "id"
        /\ named = {} /\ files = <<>> /\ matcher = "hostname" /\ file = 1 /\ line = 1
        /\ id = EmptyID
  /\ \/ part = "filter" /\ FilterInit
     \/ /\ part # "filter"
        /\ args = <<>> /\ environment = <<>> /\ options = {} /\ parsed = "flags"
        /\ nextArg = 1 /\ filter = [name \in FilterNames |-> {}]

Only(p, others) == part = p /\ UNCHANGED <<part, others>>

templateVars == <<vars, sortVars, addressVars, quoteVars, deepVars>>
startVars    == <<idVars, filterVars>>

CallsNext ==
  \/ StoreNext /\ Only("context", <<debounceVars, templateVars, startVars>>)
  \/ DebounceNext /\ Only("debounce", <<storeVars, templateVars, startVars>>)
  \/ Next /\ Only("selection", <<storeVars, debounceVars, sortVars, addressVars,
                                 quoteVars, deepVars, startVars>>)
  \/ SortNext /\ Only("sorting", <<storeVars, debounceVars, vars, addressVars,
                                   quoteVars, deepVars, startVars>>)
  \/ AddressNext /\ Only("addresses", <<storeVars, debounceVars, vars, sortVars,
                                        quoteVars, deepVars, startVars>>)
  \/ Call /\ Only("quote", <<storeVars, debounceVars, vars, sortVars, addressVars,
                             deepVars, startVars>>)
  \/ DeepNext /\ Only("deepget", <<storeVars, debounceVars, vars, sortVars,
                                   addressVars, quoteVars, startVars>>)
  \/ IDNext /\ Only("id", <<storeVars, debounceVars, templateVars, filterVars>>)
  \/ FilterNext /\ Only("filter", <<storeVars, debounceVars, templateVars, idVars>>)

callsVars == <<part, storeVars, debounceVars, templateVars, startVars>>

\* Only the debouncer is promised anything; where it does not run it has nothing to
\* do.
CallsSpec == CallsInit /\ [][CallsNext]_callsVars /\ DebounceFairness
===============================================================================
