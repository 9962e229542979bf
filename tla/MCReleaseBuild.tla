----------------------------- MODULE MCReleaseBuild -----------------------------
(* A small instance of ReleaseBuild for TLC: a manifest with its version, a
   project with a build number, and
   what native builders may export. *)
EXTENDS ReleaseBuild

Field(path, slots, value) ==
  [path |-> path, slots |-> slots, value |-> value, ecosystem |-> "semver"]
MCDeclared == <<Field("manifest", {"version"}, "package"),
                Field("project", {"build"}, "apple-build")>>
MCArtifact == MCDeclared[1]
MCPlatforms == <<"amd64", "arm64">>

PlanOf(channel, seq, build, source) ==
  [base |-> 1, channel |-> channel, seq |-> seq, build |-> build,
   promotion |-> "promote-bytes", policy |-> "policy", source |-> source]
\* A good plan, one without the number a field needs, and one for another commit.
MCPlans == {PlanOf("nightly", <<7, 3, 1>>, 10001, "commit"),
            PlanOf("beta", <<1>>, NoBuild, "commit"),
            PlanOf("rc", <<1>>, 5, "other commit")}

-----------------------------------------------------------------------------
(* Native exports *)

\* An index costs what it lists; what an attestation costs, and whether the verification
\* can parse it, its predicate says.
MCSize(doc) ==
  IF doc.kind = "index" THEN Len(doc.manifests)
  ELSE IF doc.kind = "attestation" /\ doc.layers[1].predicate = "heavy" THEN 8 ELSE 2
MCLegible(doc) == doc.kind = "attestation" => doc.layers[1].predicate # "utf-16"

Desc(media, doc, platform, about) ==
  [media |-> media, doc |-> doc, platform |-> platform, mark |-> about # <<>>, about |-> about]
Index(manifests) ==
  Desc("index", [kind |-> "index", manifests |-> manifests], "any", <<>>)
Image(p, label, revision, tree) ==
  [kind |-> "image", arch |-> p, label |-> label, revision |-> revision,
   layers |-> <<[kind |-> "layer", tree |-> tree]>>, diffs |-> <<tree>>]
Attestation(form, n, subject) ==
  LET statement == [kind |-> "statement", about |-> {subject}, predicate |-> n]
      doc == [kind |-> "attestation", form |-> form, typed |-> n = "typed",
              layers |-> <<statement>>,
              subject |-> IF form = "artifact" THEN <<subject>> ELSE <<>>]
  IN Desc("manifest", doc, "unknown", IF form = "artifact" THEN <<>> ELSE <<subject>>)

Archive(root) ==
  LET docs[n \in 0 .. 3] ==
        IF n = 0 THEN {root} ELSE UNION {ToSet(Children(d)) : d \in docs[n - 1]}
      found == {d.doc : d \in UNION {docs[n] : n \in 0 .. 3}}
      layers == UNION {ToSet(doc.layers) : doc \in {e \in found : e.kind # "index"}}
  IN [root |-> <<root>>, blobs |-> found \cup layers, damaged |-> {}]

\* An attestation in either form, flat or nested.  A repeated attempt, or a checkout
\* somebody edited, exports as simply as can be.
Main(p, label, tree) == Desc("manifest", Image(p, label, "commit", tree), p, <<>>)
Flat(main) == Archive(main)
With(main, attestations) == Archive(Index(<<main>> \o attestations))
Usual(p, label, tree) ==
  LET main == Main(p, label, tree)
      nested == Archive(Index(<<Index(<<main, Attestation("artifact", "q", main.doc)>>)>>))
  IN IF tree.made > 1 \/ (\E path \in Paths : tree.files[path].text > 0) THEN {Flat(main)}
     ELSE IF p = "amd64" THEN {With(main, <<Attestation("legacy", "p", main.doc)>>)}
     ELSE {nested}

\* What a merge has to refuse: an attestation of an image that is not in the index,
\* another revision, a layer that is not the configuration's, too many levels, a damaged
\* blob.
Refused(p, label, tree) ==
  LET main == Main(p, label, tree)
      stray == Image(p, label, "stray", tree)
  IN {[With(main, <<Attestation("legacy", "p", stray)>>) EXCEPT !.blobs = @ \cup {stray}],
      Archive(Desc("manifest", stray, p, <<>>)),
      Archive(Desc("manifest", [main.doc EXCEPT !.diffs = <<>>], p, <<>>)),
      Archive(Index(<<Index(<<Index(<<main>>)>>)>>)),
      [Flat(main) EXCEPT !.damaged = {main.doc}]}

\* What a merge accepts, and the verification refuses, of itself or merged with others:
\* too many documents walked, read or held, a typed subject, an unreadable document.
Apart(p, label, tree) ==
  LET main == Main(p, label, tree)
      attested(n) == Attestation("artifact", n, main.doc)
      unused == {[kind |-> "statement", about |-> {}, predicate |-> n] :
                   n \in {"a", "b", "c", "d", "e", "f"}}
  IN {With(main, <<attested("p"), attested("q")>>),
      [Flat(main) EXCEPT !.blobs = @ \cup unused]}
     \cup {With(main, <<attested(n)>>) : n \in {"typed", "heavy", "utf-16"}}

MCExports(p, label, tree) ==
  Usual(p, label, tree) \cup
    IF p = "arm64"
    THEN {Flat(Main(p, label, tree))} \cup Refused(p, label, tree) \cup Apart(p, label, tree)
    ELSE {}

-----------------------------------------------------------------------------
(* Two scenes: faults and a second attempt, over the usual exports; and every export, in
   one attempt without faults. *)
VARIABLE scene

Exported(p) == exports[p].archive = <<>> /\ exports'[p].archive # <<>>
Within ==
  IF scene = "readers" THEN faults' = 0 /\ attempt' = 1
  ELSE \A p \in Native : Exported(p) => exports'[p].archive[1] \in Usual(p, Label, Tree)

MCInit == Init /\ scene \in {"faults", "readers"}

MCNext == Next /\ Within /\ UNCHANGED scene

MCSpec == MCInit /\ [][MCNext]_<<vars, scene>> /\ WF_syncVars(Sync)
=============================================================================
