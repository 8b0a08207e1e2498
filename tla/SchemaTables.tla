--------------------------- MODULE SchemaTables ---------------------------
(***************************************************************************)
(* The CREATE TABLE statements of the migrations.  The Postgres and the     *)
(* SQLite migrations create the same tables in their own SQL (the only       *)
(* difference is where the constraint on socket_secret is written), so      *)
(* each is stated once.  A junction table is named by its three parts.      *)
(***************************************************************************)
EXTENDS SchemaOperations, TLC

(***************************************************************************)
(* The first release (1689458400000-init)                                  *)
(***************************************************************************)
LookupTables == {"developer", "genre", "publisher", "store", "tag"}

CreateImage ==
  CreateEntities({"image"}, {"source", "last_accessed_at"}, {"path", "media_type"},
                 {{"path"}, {"source"}})

CreateLookups ==
  CreateEntities(LookupTables, {"rawg_id", "name"}, {}, {{"name"}, {"rawg_id"}})

CreateGame ==
  CreateEntities({"game"}, {"title", "file_path", "size", "early_access", "release_date"},
    {"rawg_id", "rawg_title", "rawg_release_date", "version", "cache_date", "description",
     "website_url", "metacritic_rating", "average_playtime", "box_image_id",
     "background_image_id"},
    {{"file_path"}})

\* Unchanged in V13.
CreateProgress ==
  CreateEntities({"progress"}, {"minutes_played", "state"},
                 {"last_played_at", "user_id", "game_id"}, {})

CreateCrackpipeUser ==
  CreateEntities({"crackpipe_user"},
    {"username", "password", "email", "first_name", "last_name", "activated", "role"},
    {"profile_picture_id", "background_image_id"}, {{"email"}, {"username"}})

CreateGameLookups ==
  CreateJunctions([game_publishers_publisher |-> {"game_id", "publisher_id"},
                   game_developers_developer |-> {"game_id", "developer_id"},
                   game_stores_store         |-> {"game_id", "store_id"},
                   game_tags_tag             |-> {"game_id", "tag_id"},
                   game_genres_genre         |-> {"game_id", "genre_id"}])

GameLookupLinks ==
  [game_publishers_publisher |->
     [game_id |-> Cascade("game"), publisher_id |-> NoAction("publisher")],
   game_developers_developer |->
     [game_id |-> Cascade("game"), developer_id |-> NoAction("developer")],
   game_stores_store |-> [game_id |-> Cascade("game"), store_id |-> NoAction("store")],
   game_tags_tag     |-> [game_id |-> Cascade("game"), tag_id |-> NoAction("tag")],
   game_genres_genre |-> [game_id |-> Cascade("game"), genre_id |-> NoAction("genre")]]

(***************************************************************************)
(* Between the first release and V13                                       *)
(***************************************************************************)
CreateBookmark == CreateJunctions([bookmark |-> {"gamevault_user_id", "game_id"}])

BookmarkLinks ==
  [bookmark |-> [gamevault_user_id |-> Cascade("gamevault_user"), game_id |-> NoAction("game")]]

CreateQueryResultCache ==
  CreateTables({"query-result-cache"}, {"id", "time", "duration", "query", "result"},
               {"identifier"}, {})

\* The images of games and users.
GameImages == {"box_image_id", "background_image_id"}
UserImages == {"profile_picture_id", "background_image_id"}
Each(columns) == {{column} : column \in columns}

ImageLinks ==
  [game |-> [box_image_id |-> Cascade("image"), background_image_id |-> Cascade("image")],
   gamevault_user |-> [profile_picture_id |-> Cascade("image"),
                       background_image_id |-> Cascade("image")]]

(***************************************************************************)
(* V13 (1728421385000-v13-final)                                           *)
(***************************************************************************)
LookupMetadata ==
  {"developer_metadata", "genre_metadata", "publisher_metadata", "tag_metadata"}

ProviderEntry == {"provider_slug", "provider_data_id"}

CreateMedia ==
  CreateEntities({"media"}, {"type"}, {"source_url", "file_path", "uploader_id"},
                 {{"file_path"}})

CreateLookupMetadata ==
  CreateEntities(LookupMetadata, {"provider_slug", "provider_data_id", "name"}, {}, {})

CreateGameMetadata ==
  CreateEntities({"game_metadata"}, {},
    {"provider_slug", "provider_data_id", "provider_data_url", "provider_priority",
     "age_rating", "title", "release_date", "description", "notes", "average_playtime",
     "url_screenshots", "url_trailers", "url_gameplays", "url_websites", "rating",
     "early_access", "launch_parameters", "launch_executable", "installer_executable",
     "cover_id", "background_id"}, {})

CreateGamevaultGame ==
  CreateEntities({"gamevault_game"},
    {"file_path", "size", "early_access", "download_count", "type"},
    {"title", "sort_title", "version", "release_date", "user_metadata_id", "metadata_id"},
    {{"file_path"}, {"user_metadata_id"}, {"metadata_id"}})

CreateGamevaultUser ==
  CreateEntities({"gamevault_user"},
    {"username", "password", "socket_secret", "activated", "role"},
    {"email", "first_name", "last_name", "birth_date", "avatar_id", "background_id"},
    {{"username"}, {"email"}, {"avatar_id"}, {"background_id"}})

CreateMetadataJunctions ==
  CreateJunctions(
    [game_metadata_gamevault_games_gamevault_game |-> {"game_metadata_id", "gamevault_game_id"},
     game_metadata_publishers_publisher_metadata |->
       {"game_metadata_id", "publisher_metadata_id"},
     game_metadata_developers_developer_metadata |->
       {"game_metadata_id", "developer_metadata_id"},
     game_metadata_tags_tag_metadata     |-> {"game_metadata_id", "tag_metadata_id"},
     game_metadata_genres_genre_metadata |-> {"game_metadata_id", "genre_metadata_id"},
     gamevault_game_provider_metadata_game_metadata |->
       {"gamevault_game_id", "game_metadata_id"},
     bookmark |-> {"gamevault_user_id", "gamevault_game_id"}])

EntityLinks ==
  [media         |-> [uploader_id |-> NoAction("gamevault_user")],
   game_metadata |-> [cover_id |-> NoAction("media"), background_id |-> NoAction("media")],
   progress      |-> [user_id |-> NoAction("gamevault_user"),
                      game_id |-> NoAction("gamevault_game")],
   gamevault_game |-> [user_metadata_id |-> SetNull("game_metadata"),
                       metadata_id |-> SetNull("game_metadata")],
   gamevault_user |-> [avatar_id |-> Cascade("media"), background_id |-> Cascade("media")]]

LookupMetadataLinks ==
  [game_metadata_publishers_publisher_metadata |->
     [game_metadata_id |-> Cascade("game_metadata"),
      publisher_metadata_id |-> NoAction("publisher_metadata")],
   game_metadata_developers_developer_metadata |->
     [game_metadata_id |-> Cascade("game_metadata"),
      developer_metadata_id |-> NoAction("developer_metadata")],
   game_metadata_tags_tag_metadata |->
     [game_metadata_id |-> Cascade("game_metadata"), tag_metadata_id |-> NoAction("tag_metadata")],
   game_metadata_genres_genre_metadata |->
     [game_metadata_id |-> Cascade("game_metadata"),
      genre_metadata_id |-> NoAction("genre_metadata")]]

GameLinks ==
  [game_metadata_gamevault_games_gamevault_game |->
     [game_metadata_id |-> Cascade("game_metadata"),
      gamevault_game_id |-> NoAction("gamevault_game")],
   gamevault_game_provider_metadata_game_metadata |->
     [gamevault_game_id |-> Cascade("gamevault_game"),
      game_metadata_id |-> NoAction("game_metadata")],
   bookmark |-> [gamevault_user_id |-> Cascade("gamevault_user"),
                 gamevault_game_id |-> NoAction("gamevault_game")]]

(***************************************************************************)
(* The tables of V12, renamed out of the way by V13 and dropped at its end  *)
(***************************************************************************)
V12Names ==
  [image |-> "v12_image", game |-> "v12_game", gamevault_user |-> "v12_gamevault_user",
   progress |-> "v12_progress", developer |-> "v12_developer", genre |-> "v12_genre",
   publisher |-> "v12_publisher", store |-> "v12_store", tag |-> "v12_tag",
   bookmark |-> "v12_bookmark",
   game_developers_developer |-> "v12_game_developers_v12_developer",
   game_genres_genre         |-> "v12_game_genres_v12_genre",
   game_publishers_publisher |-> "v12_game_publishers_v12_publisher",
   game_stores_store         |-> "v12_game_stores_v12_store",
   game_tags_tag             |-> "v12_game_tags_v12_tag"]

V12Tables == {V12Names[name] : name \in DOMAIN V12Names}

RenameToV12 ==
  <<RenameTables(V12Names),
    RenameColumns("v12_bookmark", [gamevault_user_id |-> "v12_gamevault_user_id",
                                   game_id |-> "v12_game_id"]),
    RenameColumns("v12_game_developers_v12_developer",
                  [game_id |-> "v12_game_id", developer_id |-> "v12_developer_id"]),
    RenameColumns("v12_game_genres_v12_genre",
                  [game_id |-> "v12_game_id", genre_id |-> "v12_genre_id"]),
    RenameColumns("v12_game_publishers_v12_publisher",
                  [game_id |-> "v12_game_id", publisher_id |-> "v12_publisher_id"]),
    RenameColumns("v12_game_stores_v12_store",
                  [game_id |-> "v12_game_id", store_id |-> "v12_store_id"]),
    RenameColumns("v12_game_tags_v12_tag",
                  [game_id |-> "v12_game_id", tag_id |-> "v12_tag_id"]),
    DropTables({"query-result-cache"})>>

(***************************************************************************)
(* What V13 copies from the tables of V12.  The Postgres migration inserts  *)
(* the rows itself, the SQLite one saves entities; the values are the same. *)
(* The relation `uploader` is not loaded with the images, so uploader_id    *)
(* stays NULL.                                                             *)
(***************************************************************************)
CopyImages ==
  Insert("v12_image", "media",
         Same(Base) @@ [source_url |-> "source", file_path |-> "path", type |-> "media_type"],
         {"file_path", "type"})

CopyLookup(from, into) ==
  Insert(from, into, Same(Base \cup {"name"}) @@ [provider_data_id |-> "rawg_id"],
         {"provider_slug"})

CopyGames ==
  Insert("v12_game", "gamevault_game",
         Same(Base \cup {"file_path", "size", "title", "version", "release_date",
                         "early_access", "type"}),
         {"download_count"})

CopyGameMetadata ==
  Insert("v12_game", "game_metadata",
         Same({"description", "average_playtime", "early_access"}) @@
           [provider_data_id |-> "rawg_id", title |-> "rawg_title",
            release_date |-> "rawg_release_date", url_websites |-> "website_url",
            rating |-> "metacritic_rating", cover_id |-> "box_image_id",
            background_id |-> "background_image_id"],
         BaseRequired \cup {"provider_slug"})

CopyGameRelations ==
  <<Insert("v12_game", "gamevault_game_provider_metadata_game_metadata",
           [gamevault_game_id |-> "id"], {"game_metadata_id"}),
    Insert("v12_game_tags_v12_tag", "game_metadata_tags_tag_metadata",
           [tag_metadata_id |-> "v12_tag_id"], {"game_metadata_id"}),
    Insert("v12_game_genres_v12_genre", "game_metadata_genres_genre_metadata",
           [genre_metadata_id |-> "v12_genre_id"], {"game_metadata_id"}),
    Insert("v12_game_developers_v12_developer", "game_metadata_developers_developer_metadata",
           [developer_metadata_id |-> "v12_developer_id"], {"game_metadata_id"}),
    Insert("v12_game_publishers_v12_publisher", "game_metadata_publishers_publisher_metadata",
           [publisher_metadata_id |-> "v12_publisher_id"], {"game_metadata_id"})>>


\* An account without a socket secret gets a random one.
CopyUsers ==
  Insert("v12_gamevault_user", "gamevault_user",
         Same(Base \cup {"username", "password", "socket_secret", "email", "first_name",
                         "last_name", "activated", "role"}) @@
           [avatar_id |-> "profile_picture_id", background_id |-> "background_image_id"],
         {"socket_secret"})

CopyBookmarks ==
  Insert("v12_bookmark", "bookmark",
         [gamevault_user_id |-> "v12_gamevault_user_id", gamevault_game_id |-> "v12_game_id"], {})

CopyProgresses ==
  Insert("v12_progress", "progress",
         Same(Base \cup {"minutes_played", "state", "last_played_at", "user_id", "game_id"}), {})

SortTitles == <<Derive("gamevault_game", "sort_title", "title")>>

(***************************************************************************)
(* After V13                                                               *)
(***************************************************************************)
CreateSession ==
  CreateEntities({"session"},
    {"revoked", "refresh_token_hash", "expires_at", "ip_address", "user_agent"}, {"user_id"}, {})

CreateGameVersion ==
  CreateEntities({"game_version"},
    {"game_id", "file_path", "size", "early_access", "type", "indexed_at"},
    {"version", "release_date"}, {{"game_id", "file_path"}})

\* Every game's file becomes its first version.
FirstVersions ==
  Insert("gamevault_game", "game_version",
         [game_id |-> "id", deleted_at |-> "deleted_at", file_path |-> "file_path",
          version |-> "version", size |-> "size", release_date |-> "release_date",
          early_access |-> "early_access", type |-> "type", indexed_at |-> "updated_at"],
         BaseRequired)

CreateServer == CreateEntities({"gamevault_server"}, {"uuid"}, {}, {{"uuid"}})
=============================================================================
