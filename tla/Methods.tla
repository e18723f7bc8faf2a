------------------------------- MODULE Methods -------------------------------
(***************************************************************************)
(* The service methods behind the GraphQL schema, as the order of what     *)
(* they do (the routes of the file controller, each a request of one call, *)
(* are in module Files).  A path is the service the method is called on    *)
(* and a sequence of                                                       *)
(*                                                                         *)
(*   "read"   a statement on the transaction of the service's context      *)
(*   "write"  a statement on it that changes the core database             *)
(*   "lookup" a statement of UserService, on its own context's             *)
(*   "emit"   an event put into the buffer of the service's context        *)
(*   "other"  a call that no rollback undoes: Redis, e-mail, SMS, S3, the  *)
(*            converter, the log database                                  *)
(*                                                                         *)
(* A method is the set of paths its conditions leave; it may throw at any  *)
(* point of a path (a failing call, a check, a row that is not there).     *)
(***************************************************************************)
EXTENDS Sequences

\* The services of a request whose methods are fields, and, for each, those of
\* them that are injected into it.  DocumentService and CommentService have a
\* FileService injected too, but one that their own modules provide: the one
\* that uploadFile is called on is another.
Services == {"UserService", "AuthService", "PermissionService", "EventService",
             "ApplicationStatusService", "DocumentService", "DocumentTypeService",
             "DocumentTemplateService", "CommentService", "FileService"}

Injected ==
  [s \in Services |->
     {s} \cup CASE s = "AuthService"     -> {"UserService"}
              [] s = "DocumentService" -> {"DocumentTemplateService"}
              [] OTHER                 -> {}]

On(service, ways) == {[on |-> service, steps |-> way] : way \in ways}

Maybe(steps) == {<<>>, steps}

-----------------------------------------------------------------------------
\* UserService.  Unless it runs locally, create stores a recovery request and
\* mails its link before it inserts the user.
UserCreate ==
  On("UserService",
    {<<"read", "read">> \o invite \o <<"write", "write", "read", "emit">> :
       invite \in Maybe(<<"other", "other">>)})

\* A changed e-mail is announced before the patch.
UserUpdate ==
  On("UserService",
    {<<"read">> \o phone \o email \o <<"write">> \o roles \o <<"read", "emit">> :
       phone \in Maybe(<<"read">>),
       email \in {<<>>, <<"read", "emit">>, <<"read", "other", "emit">>},
       roles \in Maybe(<<"write", "write">>)})

UserRemove == On("UserService", {<<"write">>})

SendRecoverPasswordEmail == On("UserService", {<<"read", "other", "other">>})

CheckRecoveryHash ==
  On("UserService",
    {<<"other">> \o attempt : attempt \in Maybe(<<"other">>)})

\* The recovery request is counted first and deleted last.
UpdatePassword ==
  On("UserService",
    {<<"other", "other", "read", "write", "other", "other">>})

-----------------------------------------------------------------------------
\* AuthService: by password, or by phone and code; with a device, a refresh
\* token is stored.
Login ==
  On("AuthService",
    {<<"lookup">> \o code \o token \o <<"emit">> :
       code \in Maybe(<<"other", "other">>), token \in Maybe(<<"other">>)})

LoginSendCode ==
  On("AuthService",
    {<<"lookup", "other">> \o sms \o <<"other">> : sms \in Maybe(<<"other">>)})

\* TokenService has no context of its own: the user is found in one, and the
\* new token is stored when that has ended.
RefreshTokens == On("UserService", {<<"read">>})

-----------------------------------------------------------------------------
\* PermissionService
PermissionsByGroupsWithRoles == On("PermissionService", {<<"read", "read">>})

UpdateRolePermission == On("PermissionService", {<<"read", "write", "read", "emit">>})

GetPermissionsByUserRoles == On("PermissionService", {<<"read">>})

\* EventService and ApplicationStatusService, which open a transaction for
\* nothing.
GetEvents == On("EventService", {<<"other">>})
GetApplicationStatus == On("ApplicationStatusService", {<<>>})

-----------------------------------------------------------------------------
\* DocumentService, DocumentTypeService and DocumentTemplateService.
DocumentCreate == On("DocumentService", {<<"write", "emit">>})
DocumentUpdate == On("DocumentService", {<<"read", "write", "emit">>})
DocumentRemove == On("DocumentService", {<<"emit", "write">>})

DocumentTypeCreate == On("DocumentTypeService", {<<"write", "emit">>})
DocumentTypeUpdate == On("DocumentTypeService", {<<"read", "write", "emit">>})
DocumentTypeRemove == On("DocumentTypeService", {<<"emit", "write">>})

DocumentTemplateCreate == On("DocumentTemplateService", {<<"write", "emit">>})
DocumentTemplateUpdate == On("DocumentTemplateService", {<<"read", "write", "emit">>})
DocumentTemplateRemove == On("DocumentTemplateService", {<<"emit", "write">>})

-----------------------------------------------------------------------------
\* CommentService.  create dereferences the class of the entity before its
\* first statement, and no entity type has one: it never gets anywhere.
CommentUpdate == On("CommentService", {<<"read", "write">>})
CommentRemove == On("CommentService", {<<"write">>})

\* FileService.  The object is in the bucket before its row.
FileUpload == On("FileService", {<<"other", "write">>})

-----------------------------------------------------------------------------
\* The fields of a mutation and those of a query.
Mutations ==
  UserCreate \cup UserUpdate \cup UserRemove \cup SendRecoverPasswordEmail
  \cup CheckRecoveryHash \cup UpdatePassword \cup Login \cup LoginSendCode
  \cup RefreshTokens \cup UpdateRolePermission \cup DocumentCreate \cup DocumentUpdate
  \cup DocumentRemove \cup DocumentTypeCreate \cup DocumentTypeUpdate
  \cup DocumentTypeRemove \cup DocumentTemplateCreate
  \cup DocumentTemplateUpdate \cup DocumentTemplateRemove \cup CommentUpdate
  \cup CommentRemove \cup FileUpload

Queries ==
  PermissionsByGroupsWithRoles \cup GetPermissionsByUserRoles \cup GetEvents
  \cup GetApplicationStatus
=============================================================================
