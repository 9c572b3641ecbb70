---------------------------- MODULE PolicyDocument ----------------------------
(***************************************************************************)
(* buildPolicyDocument of internal/controller/                             *)
(* headscaleautoapprover_controller.go: the merge of a Headscale's inline  *)
(* policy, its tag owners and the entries of its HeadscaleAutoApprovers    *)
(* into the one document that SetPolicy takes.                             *)
(*                                                                         *)
(* The actions are the edits users make to the objects; the document is a  *)
(* function of the state they leave.  Tags and principals are numbers, in  *)
(* the order of the strings they stand for.                                *)
(***************************************************************************)
EXTENDS Integers, SequencesExt

CONSTANTS
  Cidrs,       \* subnet routes
  Tags,        \* tags and principals, numbers
  MaxEntries,  \* bound on the entries of all approvers
  MaxTags      \* bound on the tags of an entry and the principals of a tag

ASSUME TagsAssumption == Tags \subseteq Nat /\ {MaxEntries, MaxTags} \subseteq Nat

VARIABLES
  inline,     \* the keys of the inline policy
  owners,     \* acl_policy.tag_owners
  approvers   \* the specs of the approvers, in the order they are collected

vars == <<inline, owners, approvers>>

Keys == {"acls", "tagOwners", "autoApprovers"}
TagLists == SeqOf(Tags, MaxTags) \ {<<>>}
Route == [cidr : Cidrs, tags : TagLists]
NoSpec == [routes |-> <<>>, exitNodeTags |-> <<>>]
Entries(spec) == Len(spec.routes) + Len(spec.exitNodeTags)

Nothing == [x \in {} |-> <<>>]

Init == inline = {} /\ owners = Nothing /\ approvers = <<>>

-----------------------------------------------------------------------------
(* buildPolicyDocument.                                                    *)

\* slices.Sort, one element after the other.
Insert(list, x) ==
  InsertAt(list, Min({i \in DOMAIN list : x < list[i]} \cup {Len(list) + 1}), x)

Sorted(list) == FoldLeft(Insert, <<>>, list)

\* slices.Compact drops an element that equals the one before it.
AppendNew(list, x) == IF list # <<>> /\ Last(list) = x THEN list ELSE Append(list, x)

Compact(list) == FoldLeft(AppendNew, <<>>, list)

\* A slip: compacted before it is sorted.
CanonicalCompactFirst(list) == Sorted(Compact(list))

Canonical(list) == Compact(Sorted(list))

\* The tags of an entry that are new to the route.
AddTag(list, tag) == IF Contains(list, tag) THEN list ELSE Append(list, tag)

\* A slip: the last one to claim a route has it.
MergeTagsLast(existing, tags) == tags

MergeTags(existing, tags) == FoldLeft(AddTag, existing, tags)

AddRoute(routes, route) ==
  LET existing == IF route.cidr \in DOMAIN routes THEN routes[route.cidr] ELSE <<>>
  IN [cidr \in DOMAIN routes \cup {route.cidr} |->
        IF cidr = route.cidr THEN MergeTags(existing, route.tags) ELSE routes[cidr]]

\* The loop over the approvers and their routes.
AddRoutes(routes, spec) == FoldLeft(AddRoute, routes, spec.routes)

MergedRoutes(specs) == FoldLeft(AddRoutes, Nothing, specs)

\* The exit node tags are collected in a set.
ExitTags(specs) == UNION {ToSet(specs[i].exitNodeTags) : i \in DOMAIN specs}

\* A slip: the tags of a route stay in the order in which they came.
RoutesSectionUnsorted(specs) == MergedRoutes(specs)

RoutesSection(specs) ==
  [cidr \in DOMAIN MergedRoutes(specs) |-> Sorted(MergedRoutes(specs)[cidr])]

\* A slip: a key is written even if there is nothing to write.
WrittenAlways(values) == DOMAIN values

\* The keys that are written: those with something to put there.
Written(values) == {key \in DOMAIN values : DOMAIN values[key] # {}}

AutoApprovers(specs) ==
  LET section == [routes |-> RoutesSection(specs),
                  exitNode |-> Sorted(SetToSeq(ExitTags(specs)))]
  IN Restrict(section, Written(section))

TagOwners == [tag \in DOMAIN owners |-> Canonical(owners[tag])]

\* A key the operator has values for replaces that of the inline policy.
BuildPolicyDocument(specs) ==
  LET operator == [tagOwners |-> TagOwners, autoApprovers |-> AutoApprovers(specs)]
  IN [key \in inline \cup Written(operator) |->
        IF key \in Written(operator)
        THEN [by |-> "operator", value |-> operator[key]]
        ELSE [by |-> "inline"]]

-----------------------------------------------------------------------------
(* The edits.                                                              *)

Used == FoldLeft(LAMBDA n, spec : n + Entries(spec), 0, approvers)

\* An approver is created with one entry, as the CRD's validation asks for.
CreateApprover ==
  /\ Used < MaxEntries
  /\ \E spec \in {[NoSpec EXCEPT !.routes = <<r>>] : r \in Route}
                   \cup {[NoSpec EXCEPT !.exitNodeTags = <<t>>] : t \in Tags} :
       approvers' = Append(approvers, spec)
  /\ UNCHANGED <<inline, owners>>

\* The latest approver gets another entry.
ExtendApprover ==
  /\ Used < MaxEntries /\ approvers # <<>>
  /\ \/ \E r \in Route :
          approvers' = [approvers EXCEPT ![Len(approvers)].routes = Append(@, r)]
     \/ \E t \in Tags :
          approvers' = [approvers EXCEPT ![Len(approvers)].exitNodeTags = Append(@, t)]
  /\ UNCHANGED <<inline, owners>>

\* The Headscale's acl_policy is edited, once of each kind.
SetTagOwners ==
  /\ approvers = <<>> /\ owners = Nothing
  /\ \E tag \in Tags, principals \in SeqOf(Tags, MaxTags + 1) :
       owners' = [t \in {tag} |-> principals]
  /\ UNCHANGED <<inline, approvers>>

SetInline ==
  /\ approvers = <<>> /\ inline = {}
  /\ inline' \in SUBSET Keys \ {{}}
  /\ UNCHANGED <<owners, approvers>>

Next == CreateApprover \/ ExtendApprover \/ SetTagOwners \/ SetInline

Spec == Init /\ [][Next]_vars

-----------------------------------------------------------------------------
(* What the document has to be.                                            *)

Document == BuildPolicyDocument(approvers)
Section(key) == Document["autoApprovers"].value[key]

\* Reference definitions: what the approvers claim, as sets.
Claims(specs) == UNION {ToSet(specs[i].routes) : i \in DOMAIN specs}
TagsOf(claims, cidr) == UNION {ToSet(r.tags) : r \in {c \in claims : c.cidr = cidr}}

Increasing(list) == \A i, j \in DOMAIN list : i < j => list[i] < list[j]

\* A key of the inline policy comes through untouched unless the operator has
\* values for it.
OperatorHas(key) ==
  \/ key = "tagOwners" /\ owners # Nothing
  \/ key = "autoApprovers" /\ approvers # <<>>

\* Each route is approved for exactly the tags some approver claims it for,
\* whoever claims it and how often.
RoutesMerged ==
  LET claims == Claims(approvers) IN
  claims # {} =>
    /\ DOMAIN Section("routes") = {r.cidr : r \in claims}
    /\ \A cidr \in DOMAIN Section("routes") :
         /\ ToSet(Section("routes")[cidr]) = TagsOf(claims, cidr)
         /\ Increasing(Section("routes")[cidr])

\* So is an exit node for the tags some approver lists.
ExitNodesMerged ==
  ExitTags(approvers) # {} =>
    /\ ToSet(Section("exitNode")) = ExitTags(approvers)
    /\ Increasing(Section("exitNode"))

\* The owners of a tag are the principals the user listed.
OwnersCanonical ==
  owners # Nothing =>
    \A tag \in DOMAIN owners :
      LET listed == Document["tagOwners"].value[tag] IN
      ToSet(listed) = ToSet(owners[tag]) /\ Increasing(listed)

\* The document is the merge of what the inline policy, the tag owners and the
\* approvers say, as sets, with every list in order and without repetition:
\* nothing is lost when two approvers claim a CIDR, nothing of the inline base
\* is replaced for want of values, and no key comes from nowhere ("if two CRs
\* claim the same CIDR they merge"; "when it has none, any key the inline base
\* supplied passes through untouched").
Merged ==
  /\ RoutesMerged
  /\ ExitNodesMerged
  /\ OwnersCanonical
  /\ DOMAIN Document = inline \cup {key \in Keys : OperatorHas(key)}
  /\ \A key \in inline : Document[key].by = "inline" <=> ~OperatorHas(key)

\* The order in which approvers are listed does not show in the document
\* ("Deterministic order keeps SetPolicy idempotent").
OrderIndependent ==
  \A p \in Bijection(DOMAIN approvers, DOMAIN approvers) :
    BuildPolicyDocument([i \in DOMAIN approvers |-> approvers[p[i]]]) = Document
=============================================================================
