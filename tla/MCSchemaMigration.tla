-------------------------- MODULE MCSchemaMigration --------------------------
(* Instances of SchemaMigration for TLC. *)
EXTENDS SchemaMigration

CONSTANTS p1, p2

MCTwo == {p1, p2}
MCSymmetry == Permutations(MCTwo)
MCApplyAllOnly == {"ApplyAll"}
MCNoFaults == {}

Field(name, type) == [name |-> name, db |-> "", type |-> type, pk |-> type = "serial",
                      null |-> FALSE, uniq |-> FALSE, dflt |-> ""]
Nullable(f) == [f EXCEPT !.null = TRUE]
Unique(f) == [f EXCEPT !.uniq = TRUE]

Names == {"id", "title", "slug", "body", "headline", "author", "tags", "Username"}
MCSnakeCase == [n \in Names |-> IF n = "Username" THEN "username" ELSE n]
MCWithId == [n \in Names |-> IF n = "author" THEN "author_id" ELSE n]

CreatePost ==
    [kind |-> "CreateModel", id |-> 1, model |-> "Post", table |-> "blog_post", options |-> "none",
     fields |-> <<Field("id", "serial"), Field("title", "varchar"), Unique(Field("slug", "varchar")),
                  Nullable(Field("author", "fk")), Field("tags", "m2m")>>,
     indexes |-> <<[name |-> "post_title", fields |-> <<"title">>, unique |-> FALSE]>>,
     constraints |-> <<[name |-> "post_pair", cols |-> <<"title", "author_id">>]>>]

\* A blog: every step is one that the editor gets right.
MCBlog ==
    <<  <<CreatePost>>,
        <<[kind |-> "AddField", model |-> "Post", field |-> Nullable(Field("body", "text"))],
          [kind |-> "AlterField", model |-> "Post", from |-> Field("title", "varchar"),
             to |-> Nullable(Field("title", "text"))]>>,
        <<[kind |-> "AddIndex", model |-> "Post",
             index |-> [name |-> "", fields |-> <<"author_id">>, unique |-> TRUE]],
          [kind |-> "RunSQL", sql |-> "backfill", reverse |-> ""],
          [kind |-> "RemoveField", model |-> "Post", field |-> Unique(Field("slug", "varchar"))]>>,
        <<[kind |-> "RenameModel", from |-> "Post", to |-> "Article",
             fromTable |-> "blog_post", toTable |-> "blog_article"],
          [kind |-> "RenameField", model |-> "Article", from |-> "body", to |-> "headline"]>> >>
MCBlogOps == [m \in DOMAIN MCBlog |-> Len(MCBlog[m])]
=============================================================================
