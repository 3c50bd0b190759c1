--------------------------- MODULE MCAutodetector ---------------------------
(* Instances of Autodetector for TLC. *)
EXTENDS Autodetector

\* A field as the tags of a struct make it.
Field(name, type) == [name |-> name, db |-> "", type |-> type, pk |-> type = "serial", rel |-> "",
                      null |-> FALSE, uniq |-> FALSE, dflt |-> ""]
Unique(f) == [f EXCEPT !.uniq = TRUE]

MCNames == {"id", "title", "body", "author", "Username", "Name", "Codename", "AppLabel"}
MCSnakeCase == [n \in MCNames |->
    CASE n = "Username" -> "username" [] n = "Name" -> "name" [] n = "Codename" -> "codename"
      [] n = "AppLabel" -> "app_label" [] OTHER -> n]
MCWithId == [n \in MCNames |-> IF n = "author" THEN "author_id" ELSE n]

Id == Field("id", "serial")
Title == Field("title", "varchar")
Body == [Field("body", "text") EXCEPT !.null = TRUE]
Author == Field("author", "fk")
TitleIndex(unique) == [name |-> "by_title", fields |-> <<"title">>, unique |-> unique]
AuthorIndex == [name |-> "by_author", fields |-> <<"author_id">>, unique |-> FALSE]
PairKey == [name |-> "pair", cols |-> <<"title", "author_id">>]

Model(table, fields, indexes, constraints) ==
    [table |-> table, options |-> "", fields |-> fields, indexes |-> indexes, constraints |-> constraints]

Post(fields, indexes, constraints) == "Post" :> Model("blog_post", fields, indexes, constraints)
Tag == "Tag" :> [Model("blog_tag", <<Id, Unique(Field("title", "varchar"))>>, <<>>, <<>>) EXCEPT !.options = "managed"]

\* Changes that migrations support: models and fields come and go, columns change
\* type, NULL, DEFAULT and UNIQUE, indexes and constraints come and go, an index
\* becomes UNIQUE and nothing else changes, a table is renamed.
MCSupported ==
    { <<>>,
      Post(<<Id, Title>>, <<TitleIndex(FALSE)>>, <<>>),
      Post(<<Id, Title>>, <<TitleIndex(TRUE)>>, <<>>),
      Post(<<Id, Title, Author>>, <<TitleIndex(FALSE)>>, <<PairKey>>) @@ Tag,
      Post(<<Id, [Title EXCEPT !.null = TRUE, !.type = "text", !.dflt = "x"], Body>>, <<>>, <<>>) @@ Tag,
      Post(<<Id, Unique(Title), Author>>, <<AuthorIndex>>, <<>>),
      "Post" :> Model("blog_article", <<Id, Title, Author>>, <<TitleIndex(FALSE)>>, <<PairKey>>) }

\* The models of auth/auth.go (the fields that indexes and constraints name).
MCAuth ==
    { "User" :> Model("auth_user", <<Id, Unique(Field("Username", "varchar"))>>,
                      <<[name |-> "auth_user_username_idx", fields |-> <<"Username">>, unique |-> TRUE]>>, <<>>)
      @@ "Group" :> Model("auth_group", <<Id, Unique(Field("Name", "varchar"))>>, <<>>, <<>>)
      @@ "Permission" :> Model("auth_permission",
                      <<Id, Field("Codename", "varchar"), [Field("AppLabel", "varchar") EXCEPT !.db = "app_label"]>>, <<>>,
                      <<[name |-> "auth_permission_codename_app_label_idx", cols |-> <<"Codename", "AppLabel">>]>>) }
=============================================================================
