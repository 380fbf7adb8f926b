\* The keys: Enter, C, Up, Down, two different digits and one no screen knows.
SPECIFICATION Spec
CONSTANTS
    Keys = {28, 14, 103, 108, 2, 3, 59}
    MaxQueue = 2
    MaxApps = 2
    MaxContacts = 2
    MaxDial = 2
PROPERTY
    ContactListCalls
