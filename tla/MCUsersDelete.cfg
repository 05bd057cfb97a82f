CONSTANTS
    Clients = {c1, c2}
    MaxUsers = 2
    Names = {"alice", "bob"}
    Passwords = {"p", "q"}
    Levels = {1, 3}
    First <- MCFirst
SPECIFICATION Spec
PROPERTY
    DeletedStaysDeleted
