CONSTANTS
    Accounts = {a1}
    Machines = {m1}
    Nobody = Nobody
    Master = Master
    MaxBlocks = 1
    Happens = {"allocate", "delete", "import"}
    MaxMail = 1
    MaxCommands = 1
VIEW View
SPECIFICATION FairSpec
PROPERTIES
    Served
